---- MODULE Spec2Model ----
(***************************************************************************)
(* Model of aitrace: the buffering emitter (aitrace/buffer.py) and the     *)
(* ingestion store (aitrace/server.py).                                    *)
(*                                                                         *)
(* Two specifications share the module:                                    *)
(*   SpecStore    - the server: ingest_records over the logs table         *)
(*   SpecViewer   - the server as one process: ingest, and the reads       *)
(*                  get_trace, search_logs and list_traces                 *)
(*   SpecServer   - the server as several worker processes on one          *)
(*                  database file, an ingest taken one INSERT at a time    *)
(*   SpecEmitter  - one BufferedLogger (append, clear, flush,              *)
(*                  trace_context) with its sinks and the server behind    *)
(*                  its remote target                                      *)
(***************************************************************************)
EXTENDS Integers, Sequences, FiniteSets, TLC

VARIABLES
    logs,        \* server: the committed rows of table logs, in id order
    conns,       \* server: per worker process, the transaction its
                 \*         connection has open
    committed,   \* history: per ingest call that committed, the ids of
                 \*          its rows
    target,      \* emitter: [type, value], as resolved by __init__
    buffer,      \* emitter: self.buffer, the list of event dicts
    sinceClear,  \* history: the records appended since the buffer was
                 \*          last emptied
    scope,       \* emitter: "active" inside a trace_context block
    files,       \* file system: path -> lines, for the LocalFile target
    stdout,      \* the lines written to standard output
    fallbackDir, \* file system: ~/tmp/temp-trace, name -> document
    clock,       \* wall clock, in whole seconds
    netCalls,    \* the number of requests.post calls made
    held,        \* caller: the list the last get_logs call returned
    inflight,    \* emitter: the flush call that is running, and for how
                 \*          long its request has had no answer
    stack,       \* caller: the decorated calls that are running, innermost
                 \*         last, each with its span
    spans,       \* tracer: the spans started, by span id
    instances,   \* process: the BufferedLogger objects of a program that
                 \*          makes more than one, each with its buffer
    configured,  \* structlog: the object whose processors the last
                 \*            structlog.configure call installed
    environ,     \* process: os.environ.get("LOG_TRG")
    lastCall     \* the last operation called, its inputs and how it ended

storeVars == <<logs, conns, committed>>

\* the caller's side of the library, next to the buffer and its sinks
callerVars == <<held, inflight, stack, spans>>

\* the process around the BufferedLogger objects
processVars == <<instances, configured, environ>>

emitterVars ==
    <<target, buffer, sinceClear, scope, files, stdout, fallbackDir, clock,
      netCalls, callerVars, processVars>>

----------------------------------------------------------------------------
(* JSON values.  A value is a pair <<tag, payload>>; scalar payloads are   *)
(* kept as text so that the number 1 and the string "1" stay distinct.    *)

JStr(s)  == <<"str", s>>
JNum(s)  == <<"num", s>>
JBool(s) == <<"bool", s>>
JNull    == <<"null", "null">>
JList(q) == <<"list", q>>
JMap(f)  == <<"map", f>>

EmptyMap == [k \in {} |-> JNull]

\* The element of a singleton set.  Only({ F(x) : x \in {e} }) computes e once
\* and names it x, where a LET would compute it again at each use.
Only(S) == CHOOSE x \in S : TRUE

\* Python truthiness of a value (None, "", 0, False, [] and {} are falsy).
Truthy(v) ==
    CASE v[1] = "str"  -> v[2] # ""
      [] v[1] = "num"  -> v[2] # "0"
      [] v[1] = "bool" -> v[2] = "true"
      [] v[1] = "null" -> FALSE
      [] v[1] = "list" -> v[2] # <<>>
      [] v[1] = "map"  -> DOMAIN v[2] # {}

\* d.get(k): the value, or None when the key is absent.
Get(d, k) == IF k \in DOMAIN d THEN d[k] ELSE JNull

\* Python's  a or b : the first operand when truthy, else the second.
PyOr(a, b) == IF Truthy(a) THEN a ELSE b

\* The order in which the members of a mapping are written out.
KeySeq ==
    <<"timestamp", "ts", "@timestamp", "level", "lvl", "logger", "name",
      "event", "message", "msg", "trace_id", "span_id", "parent_span_id",
      "parent_id", "function", "user", "data", "k", "service_name",
      "code.function">>

Tok(kind, s) == <<kind, s>>

RECURSIVE Dumps(_), DumpItems(_, _), DumpMembers(_, _, _)

\* json.dumps: the text of a value, as its sequence of tokens.
Dumps(v) ==
    CASE v[1] = "str"  -> << Tok("s", v[2]) >>
      [] v[1] = "num"  -> << Tok("n", v[2]) >>
      [] v[1] = "bool" -> << Tok("w", v[2]) >>
      [] v[1] = "null" -> << Tok("w", "null") >>
      [] v[1] = "list" ->
            << Tok("p", "[") >> \o DumpItems(v[2], 1) \o << Tok("p", "]") >>
      [] v[1] = "map"  ->
            << Tok("p", "{") >> \o DumpMembers(v[2], 1, TRUE)
                \o << Tok("p", "}") >>

DumpItems(q, i) ==
    IF i > Len(q) THEN <<>>
    ELSE (IF i > 1 THEN << Tok("p", ",") >> ELSE <<>>)
            \o Dumps(q[i]) \o DumpItems(q, i + 1)

DumpMembers(f, i, first) ==
    IF i > Len(KeySeq) THEN <<>>
    ELSE IF KeySeq[i] \notin DOMAIN f THEN DumpMembers(f, i + 1, first)
    ELSE (IF first THEN <<>> ELSE << Tok("p", ",") >>)
            \o << Tok("s", KeySeq[i]), Tok("p", ":") >>
            \o Dumps(f[KeySeq[i]]) \o DumpMembers(f, i + 1, FALSE)

RECURSIVE ParseValue(_), ParseItems(_, _), ParseMembers(_, _)

\* json.loads, one value: <<the value, the tokens left>>.
ParseValue(t) ==
    LET h == Head(t) IN
    CASE h[1] = "s" -> << JStr(h[2]), Tail(t) >>
      [] h[1] = "n" -> << JNum(h[2]), Tail(t) >>
      [] h[1] = "w" ->
            << IF h[2] = "null" THEN JNull ELSE JBool(h[2]), Tail(t) >>
      [] h = Tok("p", "[") ->
            IF t[2] = Tok("p", "]")
            THEN << JList(<<>>), SubSeq(t, 3, Len(t)) >>
            ELSE ParseItems(Tail(t), <<>>)
      [] h = Tok("p", "{") ->
            IF t[2] = Tok("p", "}")
            THEN << JMap(EmptyMap), SubSeq(t, 3, Len(t)) >>
            ELSE ParseMembers(Tail(t), EmptyMap)

\* The items of a list, after "[" or ",".
ParseItems(t, acc) ==
    Only({ IF Head(r[2]) = Tok("p", ",")
           THEN ParseItems(Tail(r[2]), Append(acc, r[1]))
           ELSE << JList(Append(acc, r[1])), Tail(r[2]) >>
           : r \in {ParseValue(t)} })

\* The members of a mapping, after "{" or ",":  "key" : value
ParseMembers(t, f) ==
    Only({ IF Head(r[2]) = Tok("p", ",")
           THEN ParseMembers(Tail(r[2]), (t[1][2] :> r[1]) @@ f)
           ELSE << JMap((t[1][2] :> r[1]) @@ f), Tail(r[2]) >>
           : r \in {ParseValue(SubSeq(t, 3, Len(t)))} })

Loads(t) == ParseValue(t)[1]

----------------------------------------------------------------------------
(* The server: aitrace/server.py                                           *)

\* The keys normalize_record removes from attrs.
KnownKeys ==
    {"timestamp", "ts", "@timestamp", "level", "lvl", "logger", "name",
     "event", "message", "msg", "trace_id", "span_id", "parent_span_id",
     "parent_id"}

NoRow == [none |-> TRUE]

\* normalize_record with the identifier test weakened to "either one".
normalize_record_either_id(d) ==
    LET trace_id == Get(d, "trace_id")
        span_id  == Get(d, "span_id")
    IN  IF ~(Truthy(trace_id) \/ Truthy(span_id)) THEN NoRow
        ELSE [ts |-> PyOr(PyOr(Get(d, "timestamp"), Get(d, "ts")),
                          Get(d, "@timestamp")),
              level |-> PyOr(Get(d, "level"), Get(d, "lvl")),
              logger |-> PyOr(Get(d, "logger"), Get(d, "name")),
              event |-> PyOr(PyOr(Get(d, "event"), Get(d, "message")),
                             Get(d, "msg")),
              trace_id |-> trace_id, span_id |-> span_id,
              parent_span_id |->
                  PyOr(Get(d, "parent_span_id"), Get(d, "parent_id")),
              attrs |-> JStr(Dumps(JMap(
                  [k \in DOMAIN d \ KnownKeys |-> d[k]])))]

\* normalize_record with "parent_id" missing from the keys it removes.
normalize_record_keeps_alias(d) ==
    LET trace_id == Get(d, "trace_id")
        span_id  == Get(d, "span_id")
    IN  IF ~(Truthy(trace_id) /\ Truthy(span_id)) THEN NoRow
        ELSE [ts |-> PyOr(PyOr(Get(d, "timestamp"), Get(d, "ts")),
                          Get(d, "@timestamp")),
              level |-> PyOr(Get(d, "level"), Get(d, "lvl")),
              logger |-> PyOr(Get(d, "logger"), Get(d, "name")),
              event |-> PyOr(PyOr(Get(d, "event"), Get(d, "message")),
                             Get(d, "msg")),
              trace_id |-> trace_id, span_id |-> span_id,
              parent_span_id |->
                  PyOr(Get(d, "parent_span_id"), Get(d, "parent_id")),
              attrs |-> JStr(Dumps(JMap(
                  [k \in DOMAIN d \ (KnownKeys \ {"parent_id"}) |-> d[k]])))]

normalize_record(d) ==
    LET ts     == PyOr(PyOr(Get(d, "timestamp"), Get(d, "ts")),
                       Get(d, "@timestamp"))
        level  == PyOr(Get(d, "level"), Get(d, "lvl"))
        logger == PyOr(Get(d, "logger"), Get(d, "name"))
        event  == PyOr(PyOr(Get(d, "event"), Get(d, "message")),
                       Get(d, "msg"))
        trace_id == Get(d, "trace_id")
        span_id  == Get(d, "span_id")
        parent_span_id == PyOr(Get(d, "parent_span_id"), Get(d, "parent_id"))
        attrs  == [k \in DOMAIN d \ KnownKeys |-> d[k]]
    IN  IF ~(Truthy(trace_id) /\ Truthy(span_id)) THEN NoRow
        ELSE [ts |-> ts, level |-> level, logger |-> logger, event |-> event,
              trace_id |-> trace_id, span_id |-> span_id,
              parent_span_id |-> parent_span_id,
              attrs |-> JStr(Dumps(JMap(attrs)))]

Columns ==
    {"ts", "level", "logger", "event", "attrs", "trace_id", "span_id",
     "parent_span_id"}

\* sqlite3 binds None, numbers and text; a list or a mapping is refused.
Bindable(v) == v[1] \in {"str", "num", "bool", "null"}

\* The value a TEXT column holds for a bound parameter.
Bound(v) ==
    CASE v[1] = "num"  -> JStr(v[2])
      [] v[1] = "bool" -> JStr(IF v[2] = "true" THEN "1" ELSE "0")
      [] OTHER         -> v

\* The row of table logs an INSERT of a normalized record makes.
StoredRow(id, norm) ==
    [c \in Columns \cup {"id"} |-> IF c = "id" THEN id ELSE Bound(norm[c])]

\* An INSERT succeeds when every parameter binds and the NOT NULL columns
\* are not NULL.
Insertable(norm) ==
    /\ \A c \in Columns : Bindable(norm[c])
    /\ norm.trace_id # JNull
    /\ norm.span_id # JNull

\* rows of ingest_records: the normalized records, in batch order.
NormRows(records) ==
    LET F[i \in 0..Len(records)] ==
            IF i = 0 THEN <<>>
            ELSE LET norm == normalize_record(records[i])
                 IN  IF norm # NoRow THEN Append(F[i - 1], norm)
                     ELSE F[i - 1]
    IN  F[Len(records)]

\* The id AUTOINCREMENT gives the next row.
NextId(table) == IF table = <<>> THEN 1 ELSE table[Len(table)].id + 1

\* executemany inside  with conn:  - all rows, or none and the error.
InsertAll(table, rows) ==
    IF \A i \in 1..Len(rows) : Insertable(rows[i])
    THEN [table |-> table \o [i \in 1..Len(rows) |->
                                StoredRow(NextId(table) + i - 1, rows[i])],
          status |-> "ok", ingested |-> Len(rows)]
    ELSE [table |-> table, status |-> "error", ingested |-> 0]

\* ingest_records, as called by POST /api/ingest: the table afterwards, and
\* the count returned or the error raised.
ingest_records(table, records) ==
    Only({ IF rows # <<>> THEN InsertAll(table, rows)
           ELSE [table |-> table, status |-> "ok", ingested |-> 0]
           : rows \in {NormRows(records)} })

----------------------------------------------------------------------------
(* The server's reads: fetch_trace, get_trace, search_logs, list_traces    *)

\* The texts of the ts column, in the order SQLite's BINARY collation and
\* Python's str comparison give them.
TextOrder == <<"", "T1", "T2", "T3">>

Rank(s) == CHOOSE i \in 1..Len(TextOrder) : TextOrder[i] = s

\* The place of a column value in an ORDER BY: NULL before every text.
SqlRank(v) == IF v = JNull THEN 0 ELSE Rank(v[2])

\* COALESCE(ts, '')
Coalesce(v, default) == IF v = JNull THEN default ELSE v

\* A stable sort of <<key, item>> pairs by ascending key: list.sort, and an
\* ORDER BY whose last term is the place in the input.
InsertSorted(sorted, p) ==
    Only({ SubSeq(sorted, 1, n) \o <<p>> \o SubSeq(sorted, n + 1, Len(sorted))
           : n \in {Cardinality({i \in 1..Len(sorted) :
                                    sorted[i][1] <= p[1]})} })

StableSort(pairs) ==
    LET F[i \in 0..Len(pairs)] ==
            IF i = 0 THEN <<>> ELSE InsertSorted(F[i - 1], pairs[i])
    IN  F[Len(pairs)]

Items(pairs) == [i \in 1..Len(pairs) |-> pairs[i][2]]

\* The SELECT of fetch_trace without its ORDER BY: rows in storage order.
TraceRows_unordered(table, trace_id) ==
    SelectSeq(table, LAMBDA r : r.trace_id = JStr(trace_id))

\* SELECT ... FROM logs WHERE trace_id = ? ORDER BY COALESCE(ts, ''), id
TraceRows(table, trace_id) ==
    LET hit == SelectSeq(table, LAMBDA r : r.trace_id = JStr(trace_id))
    IN  Items(StableSort([i \in 1..Len(hit) |->
            <<SqlRank(Coalesce(hit[i].ts, JStr(""))), hit[i]>>]))

\* The keys of logs_by_span in the order the dict got them: each span id at
\* its first row.
SpanOrder(rows) ==
    LET F[i \in 0..Len(rows)] ==
            IF i = 0 THEN <<>>
            ELSE IF \E j \in 1..Len(F[i - 1]) :
                        F[i - 1][j] = rows[i].span_id[2]
                 THEN F[i - 1]
                 ELSE Append(F[i - 1], rows[i].span_id[2])
    IN  F[Len(rows)]

\* logs_by_span[sid]
SpanRows(rows, sid) == SelectSeq(rows, LAMBDA r : r.span_id[2] = sid)

\* parent_for_span of fetch_trace taking the parent of a span's last row.
ParentForSpan_last_row(rows, sid) ==
    SpanRows(rows, sid)[Len(SpanRows(rows, sid))].parent_span_id

\* parent_for_span[sid]: set at the first row of the span, never again.
ParentForSpan(rows, sid) == SpanRows(rows, sid)[1].parent_span_id

\* first_ts(span_id): recs[0]["ts"] or ""
first_ts(rows, sid) == PyOr(SpanRows(rows, sid)[1].ts, JStr(""))

\* HasParentHere without the test  parent in children.
HasParentHere_any_parent(rows, sid) == Truthy(ParentForSpan(rows, sid))

\* A span is listed under its parent when  parent and parent in children.
HasParentHere(rows, sid) ==
    /\ Truthy(ParentForSpan(rows, sid))
    /\ \E r \in 1..Len(rows) :
          rows[r].span_id = ParentForSpan(rows, sid)

\* roots holding every span.
Roots_all(rows) == SpanOrder(rows)

\* roots: the spans not listed under a parent, in dict order.
Roots(rows) ==
    SelectSeq(SpanOrder(rows), LAMBDA sid : ~HasParentHere(rows, sid))

\* children[p] sorted with reverse=True.
Children_newest_first(rows, p) ==
    Only({ Items(StableSort([i \in 1..Len(kids) |->
                <<0 - Rank(first_ts(rows, kids[i])[2]), kids[i]>>]))
           : kids \in
               {SelectSeq(SpanOrder(rows),
                          LAMBDA sid : /\ HasParentHere(rows, sid)
                                       /\ ParentForSpan(rows, sid)
                                              = JStr(p))} })

\* children[p]: the spans appended in dict order, then cid_list.sort(
\* key=first_ts).
Children(rows, p) ==
    Only({ Items(StableSort([i \in 1..Len(kids) |->
                <<Rank(first_ts(rows, kids[i])[2]), kids[i]>>]))
           : kids \in
               {SelectSeq(SpanOrder(rows),
                          LAMBDA sid : /\ HasParentHere(rows, sid)
                                       /\ ParentForSpan(rows, sid)
                                              = JStr(p))} })

\* node_title with the span id left out of the fallbacks.
node_title_no_span_id(rows, sid) ==
    LET first == SpanRows(rows, sid)[1]
        attrs == Loads(Coalesce(first.attrs, JStr(Dumps(JMap(EmptyMap))))[2])[2]
        fn    == PyOr(PyOr(Get(attrs, "code.function"),
                           Get(attrs, "function")), JStr(""))
        ev    == PyOr(first.event, JStr(""))
    IN  PyOr(fn, ev)

\* node_title(span_id): fn or ev or span_id
node_title(rows, sid) ==
    LET first == SpanRows(rows, sid)[1]
        attrs == Loads(Coalesce(first.attrs, JStr(Dumps(JMap(EmptyMap))))[2])[2]
        fn    == PyOr(PyOr(Get(attrs, "code.function"),
                           Get(attrs, "function")), JStr(""))
        ev    == PyOr(first.event, JStr(""))
    IN  PyOr(PyOr(fn, ev), JStr(sid))

\* What fetch_trace returns for no rows.
None == [none |-> TRUE]

\* fetch_trace reporting an empty tree where it has no rows.
fetch_trace_empty_tree(table, trace_id) ==
    Only({ LET sids == {rows[i].span_id[2] : i \in 1..Len(rows)} IN
           [trace_id |-> trace_id,
            roots |-> Roots(rows),
            children |-> [sid \in sids |-> Children(rows, sid)],
            logs_by_span |-> [sid \in sids |-> SpanRows(rows, sid)],
            parent_for_span |-> [sid \in sids |-> ParentForSpan(rows, sid)],
            title_for_span |-> [sid \in sids |-> node_title(rows, sid)]]
           : rows \in {TraceRows(table, trace_id)} })

fetch_trace(table, trace_id) ==
    Only({ IF rows = <<>> THEN None
           ELSE LET sids == {rows[i].span_id[2] : i \in 1..Len(rows)} IN
                [trace_id |-> trace_id,
                 roots |-> Roots(rows),
                 children |-> [sid \in sids |-> Children(rows, sid)],
                 logs_by_span |-> [sid \in sids |-> SpanRows(rows, sid)],
                 parent_for_span |->
                     [sid \in sids |-> ParentForSpan(rows, sid)],
                 title_for_span |-> [sid \in sids |-> node_title(rows, sid)]]
           : rows \in {TraceRows(table, trace_id)} })

\* One row of logs_by_span in the answer of GET /api/trace/{trace_id}.
LogOut(r) ==
    [ts |-> r.ts, level |-> r.level, logger |-> r.logger, event |-> r.event,
     attrs |-> Loads(Coalesce(r.attrs, JStr(Dumps(JMap(EmptyMap))))[2])]

\* GET /api/trace/{trace_id}
get_trace(table, trace_id) ==
    Only({ IF tree = None
           THEN [status |-> 404, detail |-> "Trace not found"]
           ELSE [status |-> 200,
                 payload |->
                    [trace_id |-> tree.trace_id,
                     roots |-> tree.roots,
                     children |-> tree.children,
                     parent_for_span |-> tree.parent_for_span,
                     title_for_span |-> tree.title_for_span,
                     logs_by_span |->
                        [sid \in DOMAIN tree.logs_by_span |->
                            [i \in 1..Len(tree.logs_by_span[sid]) |->
                                LogOut(tree.logs_by_span[sid][i])]]]]
           : tree \in {fetch_trace(table, trace_id)} })

\* The characters of the texts searched and searched for.
Chars(s) ==
    CASE s = "a_b" -> <<"a", "_", "b">>
      [] s = "axb" -> <<"a", "x", "b">>
      [] s = "ok"  -> <<"o", "k">>
      [] s = "X"   -> <<"X">>
      [] s = ""    -> <<>>

\* LIKE compares ASCII letters without regard to case.
Fold(c) == IF c = "X" THEN "x" ELSE c

RECURSIVE Like(_, _)

\* text LIKE pattern:  % stands for any run of characters, _ for any one.
Like(pattern, text) ==
    IF pattern = <<>> THEN text = <<>>
    ELSE IF Head(pattern) = "%"
    THEN \E k \in 0..Len(text) :
            Like(Tail(pattern), SubSeq(text, k + 1, Len(text)))
    ELSE /\ text # <<>>
         /\ Head(pattern) = "_" \/ Fold(Head(pattern)) = Fold(Head(text))
         /\ Like(Tail(pattern), Tail(text))

\* The WHERE clause search_logs builds: one AND term per filter given.
Where(r, q) ==
    /\ Truthy(q.level) => (r.level # JNull /\ r.level = q.level)
    /\ Truthy(q.event) =>
          (/\ r.event # JNull
           /\ Like(<<"%">> \o Chars(q.event[2]) \o <<"%">>,
                   Chars(r.event[2])))
    /\ Truthy(q.since) =>
          (r.ts # JNull /\ Rank(r.ts[2]) >= Rank(q.since[2]))
    /\ Truthy(q.until) =>
          (r.ts # JNull /\ Rank(r.ts[2]) <= Rank(q.until[2]))

Reverse(q) == [i \in 1..Len(q) |-> q[Len(q) + 1 - i]]

\* ORDER BY key ASC, as OrderDesc with the direction turned round.
OrderAsc(pairs, tie) ==
    Items(StableSort(IF tie = "id_desc" THEN Reverse(pairs) ELSE pairs))

\* ORDER BY key DESC.  Rows of equal key come in the order of the scan:
\* ascending or descending id, as the query planner chooses.
OrderDesc(pairs, tie) ==
    Items(StableSort(
        [i \in 1..Len(pairs) |->
            LET p == IF tie = "id_desc" THEN pairs[Len(pairs) + 1 - i]
                     ELSE pairs[i]
            IN  <<0 - p[1], p[2]>>]))

\* LIMIT ?
Limit(q, limit) == SubSeq(q, 1, IF Len(q) < limit THEN Len(q) ELSE limit)

\* row["attrs"] = json.loads(row["attrs"] or "{}")
SearchOut(r) ==
    [r EXCEPT !.attrs =
        Loads(Coalesce(r.attrs, JStr(Dumps(JMap(EmptyMap))))[2])]

\* GET /api/search
search_logs(table, q, tie) ==
    Only({ [count |-> Len(rows), results |-> rows]
           : rows \in
               {LET hit == SelectSeq(table, LAMBDA r : Where(r, q))
                    out == Limit(OrderDesc([i \in 1..Len(hit) |->
                                    <<SqlRank(hit[i].ts), hit[i]>>], tie),
                                 q.limit)
                IN  [i \in 1..Len(out) |-> SearchOut(out[i])]} })

\* The trace ids of the table, each at its first row.
TraceOrder(table) ==
    LET F[i \in 0..Len(table)] ==
            IF i = 0 THEN <<>>
            ELSE IF \E j \in 1..Len(F[i - 1]) :
                        F[i - 1][j] = table[i].trace_id
                 THEN F[i - 1]
                 ELSE Append(F[i - 1], table[i].trace_id)
    IN  F[Len(table)]

\* MIN(ts) and MAX(ts) of a group: over the rows whose ts is not NULL, and
\* NULL when there is none.
MinTs(rows) ==
    LET S == {rows[i].ts : i \in 1..Len(rows)} \ {JNull}
    IN  IF S = {} THEN JNull
        ELSE CHOOSE v \in S : \A u \in S : Rank(v[2]) <= Rank(u[2])

MaxTs(rows) ==
    LET S == {rows[i].ts : i \in 1..Len(rows)} \ {JNull}
    IN  IF S = {} THEN JNull
        ELSE CHOOSE v \in S : \A u \in S : Rank(v[2]) >= Rank(u[2])

\* One group of  SELECT trace_id, MIN(ts), MAX(ts), COUNT(*) ... GROUP BY
\* with the count taken over distinct span ids.
Group_count_spans(table, trace_id) ==
    LET rows == SelectSeq(table, LAMBDA r : r.trace_id = trace_id)
    IN  [trace_id |-> trace_id, start_ts |-> MinTs(rows),
         end_ts |-> MaxTs(rows),
         events |-> Cardinality({rows[i].span_id : i \in 1..Len(rows)})]

\* One group of  SELECT trace_id, MIN(ts), MAX(ts), COUNT(*) ... GROUP BY
Group(table, trace_id) ==
    LET rows == SelectSeq(table, LAMBDA r : r.trace_id = trace_id)
    IN  [trace_id |-> trace_id, start_ts |-> MinTs(rows),
         end_ts |-> MaxTs(rows), events |-> Len(rows)]

\* limit: int = Query(100, ge=1, le=1000)
MaxLimit == 1000

\* The request validation of the limit parameter: FastAPI answers a value
\* outside ge..le with 422 Unprocessable Entity and never calls the handler.
ValidLimit(limit) == limit >= 1 /\ limit <= MaxLimit

\* GET /api/traces
list_traces(table, limit, tie) ==
    IF ~ValidLimit(limit)
    THEN [status |-> 422, detail |-> "less_than_equal"]
    ELSE Only({ [status |-> 200,
                 traces |->
                   Limit(OrderDesc([i \in 1..Len(ids) |->
                             Only({ <<SqlRank(g.end_ts), g>>
                                    : g \in {Group(table, ids[i])} })], tie),
                         limit)]
                : ids \in {TraceOrder(table)} })

----------------------------------------------------------------------------
(* The server's connections.  Each worker process calls init_app and holds *)
(* one connection (the global db) to the same database file.               *)

NumWorkers == 2

Workers == 1..NumWorkers

\* A connection outside a transaction.
NoTxn == [active |-> FALSE]

\* The rows executemany has inserted so far in the open transaction.
PendingRows(c) ==
    IF ~c.active THEN <<>>
    ELSE [i \in 1..c.done |-> StoredRow(c.first + i - 1, c.rows[i])]

\* Visible with the uncommitted rows of every connection shown.
Visible_read_uncommitted(table, cs, w) ==
    LET F[v \in 0..NumWorkers] ==
            IF v = 0 THEN table ELSE F[v - 1] \o PendingRows(cs[v])
    IN  F[NumWorkers]

\* init_db as if it dropped the table before creating it.
init_db_recreate(table) == <<>>

\* init_db: CREATE TABLE IF NOT EXISTS logs, CREATE INDEX IF NOT EXISTS:
\* on a database that holds the table the script changes nothing.
init_db(table) == table

\* What a SELECT on worker w's connection reads: the committed rows, and
\* the rows of that connection's own open transaction.
Visible(table, cs, w) == table \o PendingRows(cs[w])

----------------------------------------------------------------------------
(* The emitter: aitrace/buffer.py                                          *)

\* What a step added at the end of a list, a file or a stream.
Added(old, new) == SubSeq(new, Len(old) + 1, Len(new))

\* How a call ends.
Return(v) == [kind |-> "return", value |-> v]
Raise(e)  == [kind |-> "raise", exc |-> e]

\* POST /api/ingest: the handler on the parsed request body.
ingest(table, body) ==
    LET parsed == Loads(body)[2] IN
    ingest_records(table, [i \in 1..Len(parsed) |-> parsed[i][2]])

\* A Python str as the sequence of its characters; None is JNull.
Text(chars) == <<"str", chars>>

RECURSIVE Join(_)

\* The string a sequence of characters spells.
Join(chars) == IF chars = <<>> THEN "" ELSE chars[1] \o Join(Tail(chars))

\* str.startswith(prefix)
StartsWith(chars, prefix) ==
    /\ Len(chars) >= Len(prefix)
    /\ SubSeq(chars, 1, Len(prefix)) = prefix

RECURSIVE Replace(_, _, _)

\* str.replace(old, new), old not empty
Replace(chars, old, new) ==
    IF chars = <<>> THEN <<>>
    ELSE IF StartsWith(chars, old)
    THEN new \o Replace(SubSeq(chars, Len(old) + 1, Len(chars)), old, new)
    ELSE <<chars[1]>> \o Replace(Tail(chars), old, new)

HttpPrefix  == <<"h", "t", "t", "p", ":", "/", "/">>
HttpsPrefix == <<"h", "t", "t", "p", "s", ":", "/", "/">>

\* "<YYYYMMDD_HHMMSS>"
Placeholder ==
    <<"<", "Y", "Y", "Y", "Y", "M", "M", "D", "D", "_", "H", "H", "M", "M",
      "S", "S", ">">>

\* datetime.now().strftime("%Y%m%d_%H%M%S"): one text per second
Stamp(now) == <<ToString(now)>>

\* the home directory of the user
Home == <<"/", "h">>

\* os.path.expanduser for "~" and "~/..."
expanduser(chars) ==
    IF chars = <<"~">> \/ StartsWith(chars, <<"~", "/">>)
    THEN Home \o Tail(chars) ELSE chars

\* _parse_target(target): the type and the value of the target, or the
\* error of mkdir.  (mk: whether the parent directories can be made)
_parse_target(trg, mk, now) ==
    IF trg[1] = "null" \/ trg[2] = <<>> \/ trg[2] = <<"-">>
    THEN Return([type |-> "stdout", value |-> "None"])
    ELSE IF StartsWith(trg[2], HttpPrefix) \/ StartsWith(trg[2], HttpsPrefix)
    THEN Return([type |-> "http", value |-> Join(trg[2])])
    ELSE IF mk # "ok" THEN Raise("OSError")
    ELSE Return([type |-> "file",
                 value |-> Join(Replace(expanduser(trg[2]), Placeholder,
                                        Stamp(now)))])

\* __init__ reading LOG_TRG before it looks at the parameter.
__init___env_first(trg, log_trg, mk, now) ==
    _parse_target(IF log_trg[1] # "null" THEN log_trg ELSE trg, mk, now)

\* BufferedLogger(target), with os.environ.get("LOG_TRG") = log_trg
__init__(trg, log_trg, mk, now) ==
    _parse_target(IF trg[1] = "null" THEN log_trg ELSE trg, mk, now)

\* get_logs handing out the buffer itself.
get_logs_no_copy(buf) == [ref |-> "buffer"]

\* get_logs: self.buffer.copy(), a new list of the same event dicts
get_logs(buf) == [ref |-> "copy", items |-> buf]

\* The entries of a list the caller holds.
HeldItems(h, buf) == IF h.ref = "buffer" THEN buf ELSE h.items

\* _buffering_processor skipping an event dict the buffer already holds.
_buffering_processor_dedup(buf, event_dict) ==
    IF \E i \in 1..Len(buf) : buf[i] = event_dict THEN buf
    ELSE Append(buf, event_dict)

\* self.buffer.append(event_dict)
_buffering_processor(buf, event_dict) == Append(buf, event_dict)

\* json.dump(log_entry, f): one record as one line.
Line(log_entry) == Dumps(JMap(log_entry))

\* str(x) of a scalar, as an f-string interpolates it.
PyStr(v) ==
    CASE v[1] = "str"  -> v[2]
      [] v[1] = "num"  -> v[2]
      [] v[1] = "bool" -> (IF v[2] = "true" THEN "True" ELSE "False")
      [] v[1] = "null" -> "None"

\* str.lower()
Lower(s) ==
    CASE s = "ERROR"   -> "error"
      [] s = "INFO"    -> "info"
      [] s = "WARNING" -> "warning"
      [] OTHER         -> s

\* log_entry.get(k, default)
GetOr(d, k, default) == IF k \in DOMAIN d THEN d[k] ELSE default

\* The fields _generate_html_trace leaves out of the details block.
DetailsExcluded ==
    {"level", "event", "timestamp", "trace_id", "span_id", "parent_span_id",
     "logger"}

\* One <div class="log-entry"> of the fallback document.
LogHtml(log_entry) ==
    [level     |-> Lower(PyStr(GetOr(log_entry, "level", JStr("info")))),
     event     |-> PyStr(GetOr(log_entry, "event", JStr(""))),
     timestamp |-> PyStr(GetOr(log_entry, "timestamp", JStr(""))),
     trace_id  |-> PyStr(GetOr(log_entry, "trace_id", JStr("N/A"))),
     span_id   |-> PyStr(GetOr(log_entry, "span_id", JStr("N/A"))),
     parent_span_id |->
         PyStr(GetOr(log_entry, "parent_span_id", JStr("N/A"))),
     details   |-> Dumps(JMap([k \in DOMAIN log_entry \ DetailsExcluded |->
                                  log_entry[k]]))]

\* .lower() of a level that is no string raises AttributeError.
HtmlRaises(buf) ==
    \E i \in 1..Len(buf) :
        "level" \in DOMAIN buf[i] /\ buf[i]["level"][1] # "str"

_generate_html_trace(buf, now) ==
    LET named == {i \in 1..Len(buf) : "service_name" \in DOMAIN buf[i]}
        first == CHOOSE i \in named : \A j \in named : i <= j
    IN  [exported |-> now,
         count |-> Len(buf),
         service_name |-> IF named = {} THEN "Unknown Service"
                          ELSE PyStr(buf[first]["service_name"]),
         logs_html |-> [i \in 1..Len(buf) |-> LogHtml(buf[i])]]

\* The name strftime("%Y%m%d_%H%M%S") gives at a clock value: one per second.
HtmlName(now) == now

\* What a flush changes, and how it ends.
\* (sent: the body handed to requests.post, <<>> when it was not called)
Keep ==
    [buffer |-> buffer, files |-> files, stdout |-> stdout,
     fallbackDir |-> fallbackDir, netCalls |-> netCalls, sent |-> <<>>,
     ret |-> Return([ingested |-> 0, message |-> "No logs to send"])]

_export_to_html_fallback(env) ==
    LET html_path == HtmlName(clock) IN
    IF HtmlRaises(buffer) THEN [dir |-> fallbackDir,
                                ret |-> Raise("AttributeError")]
    ELSE IF env.io = "open_fails"
    THEN [dir |-> fallbackDir, ret |-> Raise("OSError")]
    ELSE \* open(html_path, "w") replaces what the name held
         [dir |-> (html_path :> _generate_html_trace(buffer, clock))
                     @@ fallbackDir,
          ret |-> Return(html_path)]

\* What the endpoint answers a request that reaches it: the handler of
\* POST /api/ingest run on the body (its table is the subject of SpecStore).
Respond(env, json_data) ==
    IF env.net = "ok" THEN ingest(<<>>, json_data)
    ELSE [table |-> <<>>, status |-> env.net, ingested |-> 0]

\* The exception requests.post or raise_for_status raises: "none" when the
\* answer is a 2xx, else the kind of failure.
PostError(env, response) ==
    CASE env.net = "ok" /\ response.status = "error" -> "status"
      [] env.net = "ok" -> "none"
      [] OTHER -> env.net

\* The except clause of _flush_http, given what the fallback export did.
HttpFallback(sent, error, fb) ==
    IF fb.ret.kind = "raise"
    THEN [sent EXCEPT !.fallbackDir = fb.dir, !.ret = fb.ret]
    ELSE [sent EXCEPT !.fallbackDir = fb.dir,
                      !.ret = Return([ingested |-> Len(buffer),
                                      target |-> "fallback_html",
                                      path |-> fb.ret.value,
                                      error |-> error])]

\* HttpPost with only ConnectionError and Timeout caught.
HttpPost_narrow_except(env, json_data, response) ==
    IF PostError(env, response) = "none"
    THEN [Keep EXCEPT !.netCalls = netCalls + 1, !.sent = json_data,
                      !.ret = Return([ingested |-> response.ingested])]
    ELSE IF PostError(env, response) = "status"
    THEN [Keep EXCEPT !.netCalls = netCalls + 1, !.sent = json_data,
                      !.ret = Raise("HTTPError")]
    ELSE Only({ HttpFallback([Keep EXCEPT !.netCalls = netCalls + 1,
                                          !.sent = json_data],
                             PostError(env, response), fb)
                : fb \in {_export_to_html_fallback(env)} })

\* The try block of _flush_http after json.dumps, and its except clause.
HttpPost(env, json_data, response) ==
    IF PostError(env, response) = "none"
    THEN \* return response.json()
         [Keep EXCEPT !.netCalls = netCalls + 1, !.sent = json_data,
                      !.ret = Return([ingested |-> response.ingested])]
    ELSE Only({ HttpFallback([Keep EXCEPT !.netCalls = netCalls + 1,
                                          !.sent = json_data],
                             PostError(env, response), fb)
                : fb \in {_export_to_html_fallback(env)} })

\* requests.post(..., timeout=5): the seconds without an answer after
\* which requests raises Timeout
TimeoutS == 5

\* requests.post called without a timeout: it waits as long as it takes.
TimedOut_never(waited) == FALSE

\* The request has had no answer for the whole timeout.
TimedOut(waited) == waited >= TimeoutS

_flush_http(env) ==
    Only({ Only({ HttpPost(env, json_data, response)
                  : response \in {Respond(env, json_data)} })
           : json_data \in
               {Dumps(JList([i \in 1..Len(buffer) |-> JMap(buffer[i])]))} })

\* _flush_file opening the file with mode "w".
_flush_file_truncating(env) ==
    LET path  == target.value
        lines == [i \in 1..Len(buffer) |-> Line(buffer[i])]
    IN  CASE env.io = "open_fails" -> [Keep EXCEPT !.ret = Raise("OSError")]
          [] env.io = "write_fails" ->
                [Keep EXCEPT
                    !.files = (path :> SubSeq(lines, 1, env.cut)) @@ files,
                    !.ret = Raise("OSError")]
          [] OTHER ->
                [Keep EXCEPT
                    !.files = (path :> lines) @@ files,
                    !.ret = Return([ingested |-> Len(buffer),
                                    target |-> "file", path |-> path])]

\* _flush_file catching the failure and exporting the fallback document, as
\* _flush_http does.
_flush_file_with_fallback(env) ==
    LET path  == target.value
        old   == IF path \in DOMAIN files THEN files[path] ELSE <<>>
        lines == [i \in 1..Len(buffer) |-> Line(buffer[i])]
    IN  CASE env.io = "open_fails" ->
                HttpFallback(Keep, "OSError",
                             _export_to_html_fallback(
                                 [env EXCEPT !.io = "ok"]))
          [] env.io = "write_fails" ->
                HttpFallback([Keep EXCEPT
                                 !.files = (path :> old
                                               \o SubSeq(lines, 1, env.cut))
                                              @@ files],
                             "OSError",
                             _export_to_html_fallback(
                                 [env EXCEPT !.io = "ok"]))
          [] OTHER ->
                [Keep EXCEPT
                    !.files = (path :> old \o lines) @@ files,
                    !.ret = Return([ingested |-> Len(buffer),
                                    target |-> "file", path |-> path])]

\* with open(file_path, "a") as f: one json.dump and one "\n" per record.
\* (env.io: the open fails, or a write fails after env.cut records)
\* _flush_file taking the path's timestamp when it writes.
_flush_file_stamped_at_flush(env) ==
    LET path  == target.value \o "." \o ToString(clock)
        old   == IF path \in DOMAIN files THEN files[path] ELSE <<>>
        lines == [i \in 1..Len(buffer) |-> Line(buffer[i])]
    IN  IF env.io = "ok"
        THEN [Keep EXCEPT
                 !.files = (path :> old \o lines) @@ files,
                 !.ret = Return([ingested |-> Len(buffer),
                                 target |-> "file", path |-> path])]
        ELSE [Keep EXCEPT !.ret = Raise("OSError")]

_flush_file(env) ==
    LET path  == target.value
        old   == IF path \in DOMAIN files THEN files[path] ELSE <<>>
        lines == [i \in 1..Len(buffer) |-> Line(buffer[i])]
    IN  CASE env.io = "open_fails" -> [Keep EXCEPT !.ret = Raise("OSError")]
          [] env.io = "write_fails" ->
                [Keep EXCEPT
                    !.files = (path :> old \o SubSeq(lines, 1, env.cut))
                                 @@ files,
                    !.ret = Raise("OSError")]
          [] OTHER ->
                [Keep EXCEPT
                    !.files = (path :> old \o lines) @@ files,
                    !.ret = Return([ingested |-> Len(buffer),
                                    target |-> "file", path |-> path])]

_flush_stdout(env) ==
    LET lines == [i \in 1..Len(buffer) |-> Line(buffer[i])] IN
    IF env.io = "broken" THEN [Keep EXCEPT !.ret = Raise("OSError")]
    ELSE [Keep EXCEPT !.stdout = stdout \o lines,
                      !.ret = Return([ingested |-> Len(buffer),
                                      target |-> "stdout"])]

\* The handler flush routes the batch to.
Route(env) ==
    CASE target.type = "http" -> _flush_http(env)
      [] target.type = "file" -> _flush_file(env)
      [] OTHER                -> _flush_stdout(env)

\* ClearAfter as if self.clear() stood in a finally clause.
\* flush clearing the buffer whatever clear_after says.
ClearAfter_always(result, clear_after) ==
    IF result.ret.kind = "return"
    THEN [result EXCEPT !.buffer = <<>>] ELSE result

ClearAfter_in_finally(result, clear_after) ==
    IF clear_after THEN [result EXCEPT !.buffer = <<>>] ELSE result

\* self.clear() after the handler: reached only when the handler returned.
ClearAfter(result, clear_after) ==
    IF clear_after /\ result.ret.kind = "return"
    THEN [result EXCEPT !.buffer = <<>>] ELSE result

\* flush without the test for an empty buffer.
flush_no_empty_test(clear_after, env) ==
    Only({ ClearAfter(result, clear_after) : result \in {Route(env)} })

flush(clear_after, env) ==
    IF buffer = <<>> THEN Keep
    ELSE Only({ ClearAfter(result, clear_after) : result \in {Route(env)} })

----------------------------------------------------------------------------
(* The decorator: aitrace/decorators.py, with the processors the buffer    *)
(* configures                                                              *)

\* span_name = name or fn.__qualname__
span_name(fn) == IF Truthy(fn.name) THEN fn.name[2] ELSE fn.qualname

\* format(ctx.span_id, "016x"), format(ctx.trace_id, "032x")
SpanId(n)  == "s" \o ToString(n)
TraceId(n) == "t" \o ToString(n)

\* tracer.start_as_current_span(span_name): the span started when frames
\* are the current spans, innermost last.  A span without a current span
\* above it starts a trace.
start_as_current_span(table, frames, name) ==
    LET id == Len(table) + 1 IN
    IF frames = <<>>
    THEN [name |-> name, parent |-> 0, trace |-> id, state |-> "running"]
    ELSE [name |-> name, parent |-> frames[Len(frames)],
          trace |-> table[frames[Len(frames)]].trace, state |-> "running"]

\* TimeStamper(fmt="iso")
Iso(now) == "T" \o ToString(now)

\* _otel_ids_processor: the ids of the current span, when there is one
_otel_ids_processor(table, frames, event_dict) ==
    IF frames = <<>> THEN event_dict
    ELSE LET span == table[frames[Len(frames)]] IN
         (IF span.parent # 0
          THEN ("parent_span_id" :> JStr(SpanId(span.parent)))
          ELSE EmptyMap)
         @@ ("trace_id" :> JStr(TraceId(span.trace)))
         @@ ("span_id" :> JStr(SpanId(frames[Len(frames)])))
         @@ event_dict

\* dict_tracebacks: exc_info gives way to the exception as a list of dicts
dict_tracebacks(event_dict, exc) ==
    IF "exc_info" \in DOMAIN event_dict
    THEN ("exception" :>
             JList(<<JMap(("exc_type" :> JStr(exc.type))
                          @@ ("exc_value" :> JStr(exc.msg)))>>))
         @@ [k \in DOMAIN event_dict \ {"exc_info"} |-> event_dict[k]]
    ELSE event_dict

\* log.info(event, **kw), log.error(event, **kw): the event dict after the
\* processors up to the buffering one.  The method name is not part of it.
Processed(table, frames, event, kw, exc, now) ==
    dict_tracebacks(
        _otel_ids_processor(table, frames,
            ("timestamp" :> JStr(Iso(now))) @@ ("event" :> JStr(event))
            @@ kw),
        exc)

NoExc == [type |-> "None", msg |-> ""]

\* wrapper, from the with statement to the call of fn: the span is made
\* current and the start event logged.
wrapper_enter(table, frames, buf, fn, now) ==
    LET name    == span_name(fn)
        table2  == Append(table,
                          start_as_current_span(table, frames, name))
        frames2 == Append(frames, Len(table2))
    IN  [spans |-> table2, stack |-> frames2, method |-> "info",
         buffer |-> _buffering_processor(buf,
                        Processed(table2, frames2, name \o ".start",
                                  "provisional" :> JBool("true"), NoExc,
                                  now))]

\* The span ends and the span that was current before is current again.
EndSpan(table, frames, how) ==
    [spans |-> [table EXCEPT ![frames[Len(frames)]].state = how],
     stack |-> SubSeq(frames, 1, Len(frames) - 1)]

\* wrapper after fn returned: the end event, and the result is returned.
wrapper_return(table, frames, buf, now) ==
    LET name == table[frames[Len(frames)]].name IN
    EndSpan(table, frames, "returned")
    @@ [method |-> "info", ret |-> Return("result"),
        buffer |-> _buffering_processor(buf,
                       Processed(table, frames, name \o ".end", EmptyMap,
                                 NoExc, now))]

\* wrapper without its except clause: the exception passes through.
wrapper_except_none(table, frames, buf, exc, now) ==
    EndSpan(table, frames, "raised")
    @@ [method |-> "none", ret |-> Raise(exc), buffer |-> buf]

\* wrapper when fn raised an Exception: the end event is logged with
\* log.error, and the exception raised again.
wrapper_except(table, frames, buf, exc, now) ==
    LET name == table[frames[Len(frames)]].name IN
    EndSpan(table, frames, "raised")
    @@ [method |-> "error", ret |-> Raise(exc),
        buffer |-> _buffering_processor(buf,
                       Processed(table, frames, name \o ".end",
                                 ("error" :> JStr(exc.msg))
                                 @@ ("exc_info" :> JBool("true")),
                                 exc, now))]

----------------------------------------------------------------------------
(* Inputs of the server                                                    *)

MaxBatch == 2
MaxRows == 3

Rec1 ==
    ("timestamp" :> JStr("T1")) @@ ("level" :> JStr("info"))
    @@ ("event" :> JStr("a")) @@ ("trace_id" :> JStr("t1"))
    @@ ("span_id" :> JStr("s1")) @@ ("user" :> JNum("1"))

Rec2 ==
    ("ts" :> JStr("T2")) @@ ("lvl" :> JStr("error")) @@ ("msg" :> JStr("b"))
    @@ ("trace_id" :> JStr("t1")) @@ ("span_id" :> JStr("s2"))
    @@ ("parent_id" :> JStr("s1"))
    @@ ("data" :> JList(<<JStr("1"), JMap("k" :> JNull), JBool("true")>>))

Rec3 ==
    ("timestamp" :> JStr("")) @@ ("@timestamp" :> JStr("T3"))
    @@ ("event" :> JStr("c")) @@ ("trace_id" :> JStr("t2"))
    @@ ("span_id" :> JStr("s3")) @@ ("function" :> JStr("f"))
    @@ ("data" :> JMap(EmptyMap))

\* span_id absent
RecNoSpan == ("event" :> JStr("d")) @@ ("trace_id" :> JStr("t1"))

\* trace_id empty
RecEmptyTrace ==
    ("event" :> JStr("e")) @@ ("trace_id" :> JStr(""))
    @@ ("span_id" :> JStr("s1"))

\* span_id null
RecNullSpan ==
    ("event" :> JStr("f")) @@ ("trace_id" :> JStr("t2"))
    @@ ("span_id" :> JNull) @@ ("user" :> JStr("u"))

\* both identifiers, and a list under "name" (an alias of logger)
RecListName ==
    ("event" :> JStr("g")) @@ ("trace_id" :> JStr("t2"))
    @@ ("span_id" :> JStr("s3")) @@ ("name" :> JList(<<JStr("x")>>))

\* two aliases of one standard field at once, with values of their own
RecTwoAliases ==
    ("timestamp" :> JStr("T1")) @@ ("ts" :> JStr("T2"))
    @@ ("event" :> JStr("a")) @@ ("message" :> JStr("b"))
    @@ ("trace_id" :> JStr("t1")) @@ ("span_id" :> JStr("s2"))
    @@ ("parent_span_id" :> JStr("s1")) @@ ("parent_id" :> JStr("s3"))

IngestPool ==
    {Rec1, Rec2, Rec3, RecNoSpan, RecEmptyTrace, RecNullSpan, RecListName,
     RecTwoAliases}

SeqsUpTo(S, n) == UNION {[1..m -> S] : m \in 0..n}

Batches == SeqsUpTo(IngestPool, MaxBatch)

----------------------------------------------------------------------------
(* Inputs of the server's reads                                            *)

MaxIngests == 2   \* ingest calls that commit

\* the root span
VA ==
    ("timestamp" :> JStr("T1")) @@ ("level" :> JStr("error"))
    @@ ("event" :> JStr("a_b")) @@ ("trace_id" :> JStr("t1"))
    @@ ("span_id" :> JStr("A")) @@ ("function" :> JStr("f"))

\* a child of A
VB ==
    ("timestamp" :> JStr("T3")) @@ ("level" :> JStr("info"))
    @@ ("event" :> JStr("axb")) @@ ("trace_id" :> JStr("t1"))
    @@ ("span_id" :> JStr("B")) @@ ("parent_span_id" :> JStr("A"))

\* a child of B: no timestamp, no event
VC ==
    ("level" :> JStr("error")) @@ ("trace_id" :> JStr("t1"))
    @@ ("span_id" :> JStr("C")) @@ ("parent_id" :> JStr("B"))

\* a span whose parent has no row
VD ==
    ("timestamp" :> JStr("T2")) @@ ("level" :> JStr("error"))
    @@ ("event" :> JStr("ok")) @@ ("trace_id" :> JStr("t1"))
    @@ ("span_id" :> JStr("D")) @@ ("parent_span_id" :> JStr("missing"))
    @@ ("code.function" :> JStr("g"))

\* an earlier row of span B that names another parent
VB2 ==
    ("timestamp" :> JStr("T2")) @@ ("event" :> JStr("ok"))
    @@ ("trace_id" :> JStr("t1")) @@ ("span_id" :> JStr("B"))
    @@ ("parent_span_id" :> JStr("D"))

\* a later row of span A that names a parent
VA2 ==
    ("timestamp" :> JStr("T3")) @@ ("level" :> JStr("info"))
    @@ ("event" :> JStr("axb")) @@ ("trace_id" :> JStr("t1"))
    @@ ("span_id" :> JStr("A")) @@ ("parent_span_id" :> JStr("B"))

\* another child of A, older than B
VG ==
    ("timestamp" :> JStr("T2")) @@ ("level" :> JStr("info"))
    @@ ("event" :> JStr("ok")) @@ ("trace_id" :> JStr("t1"))
    @@ ("span_id" :> JStr("G")) @@ ("parent_span_id" :> JStr("A"))

\* a second trace, its span ids overlapping the first's
VE ==
    ("timestamp" :> JStr("T2")) @@ ("level" :> JStr("info"))
    @@ ("event" :> JStr("axb")) @@ ("trace_id" :> JStr("t2"))
    @@ ("span_id" :> JStr("A")) @@ ("function" :> JStr(""))

VF ==
    ("timestamp" :> JStr("T1")) @@ ("level" :> JStr("error"))
    @@ ("event" :> JStr("a_b")) @@ ("trace_id" :> JStr("t2"))
    @@ ("span_id" :> JStr("E")) @@ ("parent_span_id" :> JStr("A"))

ViewBatches ==
    { <<VA, VB, VC, VD>>, <<VB2>>, <<VA2>>, <<VG>>, <<VB>>, <<VE, VF>>,
      <<VC, RecNoSpan>> }

ViewTraceIds == {"t1", "t2", "t9"}

\* limit: Query(100, ge=1, le=1000)
ViewLimits == {1, 1000}

\* limits asked of GET /api/traces: the last is over the maximum
ViewListLimits == ViewLimits \cup {MaxLimit + 1}

ViewQueries ==
    [level : {JNull, JStr("error")},
     event : {JNull, JStr("a_b"), JStr("X")},
     since : {JNull, JStr("T2")},
     until : {JNull, JStr("T2")},
     limit : ViewLimits]

\* The order of rows an ORDER BY leaves open.
Ties == {"id_asc", "id_desc"}

\* Inputs of the server run as several workers
ServerBatches ==
    { <<Rec1, Rec2>>, <<Rec3, RecListName>>, <<RecNoSpan>>, <<VE, VF>> }

ServerTraceIds == {"t1"}

ServerLimits == {1000}

ServerQueries ==
    [level : {JNull}, event : {JNull}, since : {JNull}, until : {JNull},
     limit : ServerLimits]

----------------------------------------------------------------------------
(* Inputs of the emitter                                                   *)

MaxBuf == 2      \* records in the buffer
MaxCalls == 2    \* requests.post calls
MaxLines == 3    \* lines in the target file, and on standard output
MaxClock == 1    \* the last clock second

\* logged inside a child span, with fields of its own
Ev1 ==
    ("event" :> JStr("work")) @@ ("timestamp" :> JStr("T2"))
    @@ ("trace_id" :> JStr("t1")) @@ ("span_id" :> JStr("s2"))
    @@ ("parent_span_id" :> JStr("s1")) @@ ("user" :> JNum("1"))
    @@ ("data" :> JList(<<JStr("1"), JNull>>))

\* logged with level= and logger= given by the caller
Ev2 ==
    ("event" :> JStr("fail")) @@ ("timestamp" :> JStr("T2"))
    @@ ("trace_id" :> JStr("t1")) @@ ("span_id" :> JStr("s1"))
    @@ ("level" :> JStr("ERROR")) @@ ("logger" :> JStr("app"))

\* logged outside every span: no identifiers
Ev3 ==
    ("event" :> JStr("loose")) @@ ("timestamp" :> JStr("T3"))
    @@ ("service_name" :> JStr("svc"))

EmitPool == {Ev1, Ev2, Ev3}

HasIds(d) == "trace_id" \in DOMAIN d /\ "span_id" \in DOMAIN d

Targets ==
    {[type |-> "http", value |-> "http://localhost:8000/api/ingest"],
     [type |-> "file", value |-> "logs.jsonl"],
     [type |-> "stdout", value |-> "None"]}

\* The targets given to the constructor, and found in LOG_TRG.
TargetTexts ==
    { JNull,
      Text(<<>>),
      Text(<<"-">>),
      Text(HttpPrefix \o <<"h">>),
      Text(HttpsPrefix \o <<"h">>),
      Text(<<"h", "t", "t", "p">>),
      Text(<<"f">>),
      Text(<<"~", "/", "f">>),
      Text(<<"f">> \o Placeholder) }

\* Inputs of the decorator

MaxDepth == 2     \* decorated calls running at once
MaxSpans == 2     \* decorated calls made
MaxBodyLogs == 1  \* events the function bodies log

\* @auto_span() on f, @auto_span("job") on g, @auto_span("") on h
Decorated ==
    {[name |-> JNull, qualname |-> "f"],
     [name |-> JStr("job"), qualname |-> "g"],
     [name |-> JStr(""), qualname |-> "h"]}

\* what a function body raises
Exceptions == {[type |-> "ValueError", msg |-> "bad"]}

\* What the surroundings of one flush call may do.
NoEnv == [net |-> "none", io |-> "ok", cut |-> 0]

Envs ==
    IF buffer = <<>> THEN {NoEnv}
    ELSE CASE target.type = "http" ->
                {e \in [net : {"ok", "refused", "timeout", "dns", "status"},
                        io  : {"ok", "open_fails"},
                        cut : {0}] :
                    e.net = "ok" => e.io = "ok"}
           [] target.type = "file" ->
                {e \in [net : {"none"},
                        io  : {"ok", "open_fails", "write_fails"},
                        cut : 0..(Len(buffer) - 1)] :
                    e.io # "write_fails" => e.cut = 0}
           [] OTHER ->
                [net : {"none"}, io : {"ok", "broken"}, cut : {0}]

----------------------------------------------------------------------------
(* Specifications                                                          *)

NoCall == [op |-> "none"]

NoFiles == [p \in {} |-> <<>>]

\* no list was handed out yet
NoList == [ref |-> "none"]

\* the names of the BufferedLogger objects of a program that makes two
Instances == {"A", "B"}

\* the object was not constructed yet
NotMade == [made |-> FALSE]

\* no flush call is running
NoRequest == [state |-> "idle"]

Idle ==
    /\ buffer = <<>>
    /\ sinceClear = <<>>
    /\ scope = "idle"
    /\ files = NoFiles
    /\ stdout = <<>>
    /\ fallbackDir = NoFiles
    /\ clock = 0
    /\ netCalls = 0
    /\ logs = <<>>
    /\ conns = [w \in Workers |-> NoTxn]
    /\ committed = <<>>
    /\ held = NoList
    /\ inflight = NoRequest
    /\ stack = <<>>
    /\ spans = <<>>
    /\ instances = [i \in Instances |-> NotMade]
    /\ configured = "none"
    /\ environ = JNull
    /\ lastCall = NoCall

vars ==
    <<logs, conns, committed, target, buffer, sinceClear, scope, files,
      stdout, fallbackDir, clock, netCalls, held, inflight, stack, spans,
      instances, configured, environ, lastCall>>

\* ---- SpecStore: the server alone

InitStore ==
    /\ target = [type |-> "stdout", value |-> "None"]
    /\ Idle

\* POST /api/ingest
Ingest ==
    \E records \in Batches : \E r \in {ingest_records(logs, records)} :
        /\ Len(r.table) <= MaxRows
        /\ logs' = r.table
        /\ lastCall' = [op |-> "ingest", records |-> records,
                        status |-> r.status, ingested |-> r.ingested]
        /\ UNCHANGED <<conns, committed>>
        /\ UNCHANGED emitterVars

NextStore == Ingest

SpecStore == InitStore /\ [][NextStore]_vars

\* ---- SpecEmitter: one BufferedLogger, its sinks and the server

\* BufferedLogger(target)
InitEmitter ==
    /\ target \in Targets
    /\ Idle

\* The state a flush leaves.
Apply(eff) ==
    /\ buffer' = eff.buffer
    /\ sinceClear' = IF eff.buffer = <<>> THEN <<>> ELSE sinceClear
    /\ files' = eff.files
    /\ stdout' = eff.stdout
    /\ fallbackDir' = eff.fallbackDir
    /\ netCalls' = eff.netCalls
    /\ UNCHANGED <<storeVars, processVars, held, stack, spans>>

\* The bounds on what the sinks hold.
Room ==
    \/ buffer = <<>>
    \/ /\ target.type = "http"
       /\ netCalls < MaxCalls
    \/ /\ target.type = "file"
       /\ Len(GetOr(files, target.value, <<>>)) + Len(buffer) <= MaxLines
    \/ /\ target.type = "stdout"
       /\ Len(stdout) + Len(buffer) <= MaxLines

\* buffered.logger.info(...): the processors run on one event dict
Emit(pool) ==
    \E event_dict \in pool :
        /\ Len(buffer) < MaxBuf
        /\ target.type = "stdout" => Len(stdout) < MaxLines
        /\ scope = "active" => HasIds(event_dict)
        /\ buffer' = _buffering_processor(buffer, event_dict)
        /\ sinceClear' = Append(sinceClear, event_dict)
        \* the stdout target keeps JSONRenderer, so the event is printed
        /\ stdout' = IF target.type = "stdout"
                     THEN Append(stdout, Line(event_dict)) ELSE stdout
        /\ lastCall' = NoCall
        /\ UNCHANGED <<storeVars, processVars,
                       target, scope, files, fallbackDir, clock,
                       netCalls, callerVars>>

Log == Emit(EmitPool)

\* buffered.clear()
Clear ==
    /\ scope = "idle"
    /\ buffer # <<>>
    /\ buffer' = <<>>
    /\ sinceClear' = <<>>
    /\ lastCall' = NoCall
    /\ UNCHANGED <<storeVars, processVars,
                   target, scope, files, stdout, fallbackDir, clock,
                   netCalls, callerVars>>

\* buffered.flush(clear_after)
Flush ==
    \E clear_after \in BOOLEAN : \E env \in Envs :
    \E eff \in {flush(clear_after, env)} :
        /\ scope = "idle"
        /\ Room
        /\ Apply(eff)
        /\ lastCall' = [op |-> "flush", clear_after |-> clear_after,
                        flushed |-> TRUE, env |-> env, sent |-> eff.sent,
                        ret |-> eff.ret]
        /\ UNCHANGED <<target, scope, clock, inflight>>

\* trace_context entering the block without self.clear().
trace_context_enter_keep(buf) == buf

\* trace_context before the yield: self.clear()
trace_context_enter(buf) == <<>>

\* with buffered.trace_context(tracer, span_name):  - entering the block
\* (sinceClear starts again: the records appended inside the scope)
TraceContextEnter ==
    /\ scope = "idle"
    /\ scope' = "active"
    /\ buffer' = trace_context_enter(buffer)
    /\ sinceClear' = <<>>
    /\ lastCall' = NoCall
    /\ UNCHANGED <<storeVars, processVars,
                   target, files, stdout, fallbackDir, clock,
                   netCalls, callerVars>>

\* trace_context after the yield: the block was left normally, by a return,
\* or by an exception, which the generator does not catch.
trace_context_exit(how, env) ==
    IF how = "exception"
    THEN [eff |-> [Keep EXCEPT !.ret = Raise("BodyException")],
          flushed |-> FALSE]
    ELSE [eff |-> flush(TRUE, env), flushed |-> TRUE]

TraceContextExit ==
    \E how \in {"normal", "return", "exception"} :
    \E env \in (IF how = "exception" THEN {NoEnv} ELSE Envs) :
    \E r \in {trace_context_exit(how, env)} :
        /\ scope = "active"
        /\ how # "exception" => Room
        /\ scope' = "idle"
        /\ Apply(r.eff)
        /\ lastCall' = [op |-> "trace_context_exit", how |-> how,
                        clear_after |-> TRUE, flushed |-> r.flushed,
                        env |-> env, sent |-> r.eff.sent,
                        ret |-> r.eff.ret]
        /\ UNCHANGED <<target, clock, inflight>>

\* a second passes
Tick ==
    /\ clock < MaxClock
    /\ clock' = clock + 1
    /\ lastCall' = NoCall
    /\ UNCHANGED <<storeVars, processVars,
                   target, buffer, sinceClear, scope, files, stdout,
                   fallbackDir, netCalls, callerVars>>

NextEmitter ==
    \/ Log
    \/ Clear
    \/ Flush
    \/ TraceContextEnter
    \/ TraceContextExit
    \/ Tick

SpecEmitter == InitEmitter /\ [][NextEmitter]_vars

\* ---- SpecConstruct: the program makes BufferedLogger objects
\* ---- SpecBuffer: the program logs and looks at the buffer

\* buffered = BufferedLogger(target): the new object takes the place of
\* the one the program held; when the constructor raises there is none.
Construct ==
    \E trg \in TargetTexts : \E log_trg \in TargetTexts :
    \E mk \in {"ok", "denied"} :
    \E r \in {__init__(trg, log_trg, mk, clock)} :
        /\ scope = "idle"
        /\ lastCall' = [op |-> "init", target |-> trg, log_trg |-> log_trg,
                        mk |-> mk, ret |-> r]
        /\ IF r.kind = "raise"
           THEN UNCHANGED <<target, buffer, sinceClear, held>>
           ELSE /\ target' = r.value
                /\ buffer' = <<>>
                /\ sinceClear' = <<>>
                \* a list of the old object stays the caller's own
                /\ held' = IF held.ref = "none" THEN held
                           ELSE [ref |-> "copy",
                                 items |-> HeldItems(held, buffer)]
        /\ UNCHANGED <<storeVars, processVars,
                       scope, files, stdout, fallbackDir, clock,
                       netCalls, inflight, stack, spans>>

\* logs = buffered.get_logs()
GetLogs ==
    /\ held' = get_logs(buffer)
    /\ lastCall' = [op |-> "get_logs",
                    result |-> HeldItems(get_logs(buffer), buffer)]
    /\ UNCHANGED <<storeVars, processVars,
                   target, buffer, sinceClear, scope, files,
                   stdout, fallbackDir, clock, netCalls, inflight, stack,
                   spans>>

\* What a change of the list the caller holds does to the two lists.
ListBecomes(items) ==
    IF held.ref = "buffer"
    THEN buffer' = items /\ UNCHANGED held
    ELSE held' = [held EXCEPT !.items = items] /\ UNCHANGED buffer

\* logs.append(entry) on the list get_logs returned
ListAppend ==
    /\ held.ref # "none"
    /\ Len(HeldItems(held, buffer)) < MaxBuf
    /\ ListBecomes(Append(HeldItems(held, buffer), Ev3))
    /\ lastCall' = [op |-> "list_append"]
    /\ UNCHANGED <<storeVars, processVars,
                   target, sinceClear, scope, files, stdout,
                   fallbackDir, clock, netCalls, inflight, stack, spans>>

\* logs.pop(0) on the list get_logs returned
ListPop ==
    /\ held.ref # "none"
    /\ HeldItems(held, buffer) # <<>>
    /\ ListBecomes(Tail(HeldItems(held, buffer)))
    /\ lastCall' = [op |-> "list_pop"]
    /\ UNCHANGED <<storeVars, processVars,
                   target, sinceClear, scope, files, stdout,
                   fallbackDir, clock, netCalls, inflight, stack, spans>>

NextConstruct ==
    \/ Construct
    \/ Tick

SpecConstruct == InitEmitter /\ [][NextConstruct]_vars

NextBuffer ==
    \/ Log
    \/ Clear
    \/ GetLogs
    \/ ListAppend
    \/ ListPop

SpecBuffer == InitEmitter /\ [][NextBuffer]_vars

\* ---- SpecDelivery: flush as a blocking call, which begins, waits for its
\* ---- sink and ends

\* result = buffered.flush(clear_after): the call begins
FlushBegin ==
    \E clear_after \in BOOLEAN :
        /\ scope = "idle"
        /\ inflight = NoRequest
        /\ Room
        /\ inflight' = [state |-> "running", clear_after |-> clear_after,
                        waited |-> 0]
        /\ lastCall' = [op |-> "flush_begin"]
        /\ UNCHANGED <<storeVars, processVars,
                       target, buffer, sinceClear, scope, files,
                       stdout, fallbackDir, clock, netCalls, held, stack,
                       spans>>

\* The running call is inside requests.post.
Posting ==
    /\ inflight.state = "running"
    /\ target.type = "http"
    /\ buffer # <<>>

\* The running call ends: with what flush returns or raises.
FlushEnd(env) ==
    \E eff \in {flush(inflight.clear_after, env)} :
        /\ Apply(eff)
        /\ inflight' = NoRequest
        /\ lastCall' = [op |-> "flush",
                        clear_after |-> inflight.clear_after,
                        flushed |-> TRUE, env |-> env, sent |-> eff.sent,
                        ret |-> eff.ret, waited |-> inflight.waited]
        /\ UNCHANGED <<target, scope, clock>>

\* A second passes in which the endpoint sends nothing.
Wait ==
    /\ Posting
    /\ ~TimedOut(inflight.waited)
    /\ inflight.waited < TimeoutS
    /\ inflight' = [inflight EXCEPT !.waited = @ + 1]
    /\ lastCall' = [op |-> "wait"]
    /\ UNCHANGED <<storeVars, processVars,
                   target, buffer, sinceClear, scope, files,
                   stdout, fallbackDir, clock, netCalls, held, stack, spans>>

\* The endpoint answers, or the connection fails, before the timeout.
Answer ==
    /\ Posting
    /\ ~TimedOut(inflight.waited)
    /\ \E env \in {e \in Envs : e.net # "timeout"} : FlushEnd(env)

\* The timeout passes: requests.post raises Timeout.
TimeoutFires ==
    /\ Posting
    /\ TimedOut(inflight.waited)
    /\ \E env \in {e \in Envs : e.net = "timeout"} : FlushEnd(env)

\* The call has nothing to post: the buffer is empty, or the target is the
\* file or standard output, which it writes before it returns.
LocalEnd ==
    /\ inflight.state = "running"
    /\ ~Posting
    /\ \E env \in Envs : FlushEnd(env)

\* The caller logs between its flush calls.
LogBetween ==
    /\ inflight = NoRequest
    /\ Emit({Ev1})

NextDelivery ==
    \/ LogBetween
    \/ FlushBegin
    \/ Wait
    \/ Answer
    \/ TimeoutFires
    \/ LocalEnd

\* Time passes, requests raises Timeout when its timer runs out, and a
\* write to a file or to standard output returns or raises.
SpecDelivery ==
    /\ InitEmitter
    /\ [][NextDelivery]_vars
    /\ WF_vars(Wait)
    /\ WF_vars(TimeoutFires)
    /\ WF_vars(LocalEnd)

\* ---- SpecSpan: decorated functions called inside one another, with
\* ---- tracing set up and a BufferedLogger configured

InitSpan ==
    /\ target = [type |-> "http",
                 value |-> "http://localhost:8000/api/ingest"]
    /\ Idle

\* The events function bodies logged.
BodyLogs == {i \in 1..Len(buffer) : buffer[i]["event"] = JStr("work")}

\* A decorated function is called: from the program, or from the body of
\* the decorated function that is running.
Call ==
    \E fn \in Decorated :
    \E r \in {wrapper_enter(spans, stack, buffer, fn, clock)} :
        /\ Len(stack) < MaxDepth
        /\ Len(spans) < MaxSpans
        /\ spans' = r.spans
        /\ stack' = r.stack
        /\ buffer' = r.buffer
        /\ sinceClear' = sinceClear \o Added(buffer, r.buffer)
        /\ lastCall' = [op |-> "call", method |-> r.method]
        /\ UNCHANGED <<storeVars, processVars,
                       target, scope, files, stdout, fallbackDir,
                       clock, netCalls, held, inflight>>

\* The body of the running function logs an event.
BodyLog ==
    \E event_dict \in {Processed(spans, stack, "work", "n" :> JNum("1"),
                                  NoExc, clock)} :
        /\ stack # <<>>
        /\ Cardinality(BodyLogs) < MaxBodyLogs
        /\ buffer' = _buffering_processor(buffer, event_dict)
        /\ sinceClear' = Append(sinceClear, event_dict)
        /\ lastCall' = [op |-> "body_log", method |-> "info"]
        /\ UNCHANGED <<storeVars, processVars,
                       target, scope, files, stdout, fallbackDir,
                       clock, netCalls, callerVars>>

\* The running function returns.
BodyReturns ==
    /\ stack # <<>>
    /\ \E r \in {wrapper_return(spans, stack, buffer, clock)} :
        /\ spans' = r.spans
        /\ stack' = r.stack
        /\ buffer' = r.buffer
        /\ sinceClear' = sinceClear \o Added(buffer, r.buffer)
        /\ lastCall' = [op |-> "return", method |-> r.method,
                        span |-> stack[Len(stack)], ret |-> r.ret]
        /\ UNCHANGED <<storeVars, processVars,
                       target, scope, files, stdout, fallbackDir,
                       clock, netCalls, held, inflight>>

\* The running function raises an Exception: one of its own, or one that
\* a decorated function it called raised and it did not catch.
BodyRaises ==
    /\ stack # <<>>
    /\ \E exc \in Exceptions :
       \E r \in {wrapper_except(spans, stack, buffer, exc, clock)} :
        /\ spans' = r.spans
        /\ stack' = r.stack
        /\ buffer' = r.buffer
        /\ sinceClear' = sinceClear \o Added(buffer, r.buffer)
        /\ lastCall' = [op |-> "raise", method |-> r.method,
                        span |-> stack[Len(stack)], exc |-> exc,
                        ret |-> r.ret]
        /\ UNCHANGED <<storeVars, processVars,
                       target, scope, files, stdout, fallbackDir,
                       clock, netCalls, held, inflight>>

NextSpan ==
    \/ Call
    \/ BodyLog
    \/ BodyReturns
    \/ BodyRaises

SpecSpan == InitSpan /\ [][NextSpan]_vars

\* ---- SpecProcess: one program that makes two BufferedLogger objects and
\* ---- logs through the logger of either

TargetTypes == {"stdout", "file", "http"}

\* _configure_structlog of object i: structlog.configure replaces the
\* processors of the whole process by a chain that holds the
\* _buffering_processor bound to i
_configure_structlog(i) == i

\* i = BufferedLogger(target): a new buffer, and the process is configured
\* for i
Make ==
    \E i \in Instances : \E type \in TargetTypes :
        /\ ~instances[i].made
        /\ instances' = [instances EXCEPT ![i] =
                            [made |-> TRUE, target_type |-> type,
                             buffer |-> <<>>]]
        /\ configured' = _configure_structlog(i)
        /\ lastCall' = [op |-> "make", instance |-> i]
        /\ UNCHANGED <<storeVars, target, buffer, sinceClear, scope, files,
                       stdout, fallbackDir, clock, netCalls, callerVars,
                       environ>>

\* i.logger.info(...): i.logger is structlog.get_logger(), a proxy that
\* takes the processors configured at the time of the call
\* (cache_logger_on_first_use=False), so the event goes through the
\* _buffering_processor of the object configured last
LogThrough ==
    \E i \in Instances : \E event_dict \in EmitPool :
        /\ instances[i].made
        /\ Len(instances[configured].buffer) < MaxBuf
        /\ instances[configured].target_type = "stdout" =>
               Len(stdout) < MaxLines
        /\ instances' = [instances EXCEPT ![configured].buffer =
                            _buffering_processor(@, event_dict)]
        /\ stdout' = IF instances[configured].target_type = "stdout"
                     THEN Append(stdout, Line(event_dict)) ELSE stdout
        /\ lastCall' = [op |-> "log", instance |-> i, event |-> event_dict]
        /\ UNCHANGED <<storeVars, target, buffer, sinceClear, scope, files,
                       fallbackDir, clock, netCalls, callerVars,
                       configured, environ>>

InitProcess ==
    /\ target = [type |-> "stdout", value |-> "None"]
    /\ Idle

NextProcess ==
    \/ Make
    \/ LogThrough

SpecProcess == InitProcess /\ [][NextProcess]_vars

\* ---- SpecTarget: one program sets LOG_TRG, makes its buffer and uses it
\* ---- while LOG_TRG and the clock change

\* values of LOG_TRG, and of the constructor's parameter
EnvTexts ==
    {JNull, Text(HttpPrefix \o <<"h">>), Text(<<"f">> \o Placeholder)}

BuildTexts == {JNull, Text(<<"-">>)}

\* os.environ["LOG_TRG"] = value, or del os.environ["LOG_TRG"]
SetEnv ==
    \E value \in EnvTexts :
        /\ environ' = value
        /\ lastCall' = [op |-> "setenv", value |-> value]
        /\ UNCHANGED <<storeVars, target, buffer, sinceClear, scope, files,
                       stdout, fallbackDir, clock, netCalls, callerVars,
                       instances, configured>>

\* buffered = BufferedLogger(target) reading LOG_TRG as it is now; the
\* program makes its buffer before it logs or delivers anything.
Build ==
    \E trg \in BuildTexts : \E r \in {__init__(trg, environ, "ok", clock)} :
        /\ scope = "idle"
        /\ buffer = <<>>
        /\ stdout = <<>>
        /\ netCalls = 0
        /\ DOMAIN files = {}
        /\ DOMAIN fallbackDir = {}
        /\ target' = r.value
        /\ lastCall' = [op |-> "init", target |-> trg, log_trg |-> environ,
                        mk |-> "ok", ret |-> r]
        /\ UNCHANGED <<storeVars, processVars, buffer, sinceClear, scope,
                       files, stdout, fallbackDir, clock, netCalls,
                       callerVars>>

LogOne == Emit({Ev1})

NextTarget ==
    \/ SetEnv
    \/ Build
    \/ LogOne
    \/ Clear
    \/ GetLogs
    \/ Flush
    \/ TraceContextEnter
    \/ TraceContextExit
    \/ Tick

SpecTarget == InitProcess /\ [][NextTarget]_vars

\* ---- SpecViewer and SpecServer: the server's handlers on the connection
\* ---- of a worker process

InitServer ==
    /\ target = [type |-> "stdout", value |-> "None"]
    /\ Idle

\* POST /api/ingest up to the first INSERT of executemany, which opens the
\* transaction and takes the write lock; a batch without a valid record
\* ends here with count 0.
IngestBegin(w, batches) ==
    \E records \in batches : \E rows \in {NormRows(records)} :
        /\ ~conns[w].active
        /\ Len(committed) < MaxIngests
        /\ \A v \in Workers : ~conns[v].active
        /\ IF rows = <<>>
           THEN /\ lastCall' = [op |-> "ingest", worker |-> w,
                                records |-> records, status |-> "ok",
                                ingested |-> 0]
                /\ UNCHANGED conns
           ELSE /\ conns' = [conns EXCEPT ![w] =
                                [active |-> TRUE, records |-> records,
                                 rows |-> rows, done |-> 0,
                                 first |-> NextId(logs)]]
                /\ lastCall' = [op |-> "begin", worker |-> w]
        /\ UNCHANGED <<logs, committed>>
        /\ UNCHANGED emitterVars

\* POST /api/ingest while another process holds the write lock: the
\* connection's timeout passes and sqlite3 raises OperationalError.
IngestBusy(w, batches) ==
    \E records \in batches :
        /\ ~conns[w].active
        /\ \E v \in Workers : conns[v].active
        /\ NormRows(records) # <<>>
        /\ lastCall' = [op |-> "ingest", worker |-> w, records |-> records,
                        status |-> "error", ingested |-> 0]
        /\ UNCHANGED storeVars
        /\ UNCHANGED emitterVars

\* One INSERT of executemany: the row joins the transaction, or the error
\* leaves the  with conn:  block, which rolls the transaction back.
IngestRow(w) ==
    /\ conns[w].active
    /\ conns[w].done < Len(conns[w].rows)
    /\ IF Insertable(conns[w].rows[conns[w].done + 1])
       THEN /\ conns' = [conns EXCEPT ![w].done = @ + 1]
            /\ lastCall' = [op |-> "insert", worker |-> w]
       ELSE /\ conns' = [conns EXCEPT ![w] = NoTxn]
            /\ lastCall' = [op |-> "ingest", worker |-> w,
                            records |-> conns[w].records,
                            status |-> "error", ingested |-> 0]
    /\ UNCHANGED <<logs, committed>>
    /\ UNCHANGED emitterVars

\* The end of the  with conn:  block: commit, and the count is returned.
IngestCommit(w) ==
    /\ conns[w].active
    /\ conns[w].done = Len(conns[w].rows)
    /\ logs' = logs \o PendingRows(conns[w])
    /\ committed' = Append(committed,
                           {conns[w].first + i - 1 : i \in 1..conns[w].done})
    /\ conns' = [conns EXCEPT ![w] = NoTxn]
    /\ lastCall' = [op |-> "ingest", worker |-> w,
                    records |-> conns[w].records, status |-> "ok",
                    ingested |-> Len(conns[w].rows)]
    /\ UNCHANGED emitterVars

\* A handler runs on its worker's event loop: it starts when no other
\* handler of that worker is running.
Free(w) == ~conns[w].active

\* init_app(db_path) in a worker process that starts on the database the
\* earlier processes left: a new connection, and init_db on it.
InitApp(w) ==
    /\ Free(w)
    /\ logs' = init_db(logs)
    /\ conns' = [conns EXCEPT ![w] = NoTxn]
    /\ lastCall' = [op |-> "init_app", worker |-> w]
    /\ UNCHANGED committed
    /\ UNCHANGED emitterVars

\* GET /api/trace/{trace_id}
GetTrace(w, ids) ==
    \E trace_id \in ids : \E table \in {Visible(logs, conns, w)} :
        /\ Free(w)
        /\ lastCall' = [op |-> "get_trace", worker |-> w,
                        trace_id |-> trace_id, snapshot |-> table,
                        result |-> get_trace(table, trace_id)]
        /\ UNCHANGED storeVars
        /\ UNCHANGED emitterVars

\* GET /api/search
SearchLogs(w, queries) ==
    \E q \in queries : \E tie \in Ties :
    \E table \in {Visible(logs, conns, w)} :
        /\ Free(w)
        /\ lastCall' = [op |-> "search_logs", worker |-> w, q |-> q,
                        snapshot |-> table,
                        result |-> search_logs(table, q, tie)]
        /\ UNCHANGED storeVars
        /\ UNCHANGED emitterVars

\* GET /api/traces
ListTraces(w, limits) ==
    \E limit \in limits : \E tie \in Ties :
    \E table \in {Visible(logs, conns, w)} :
        /\ Free(w)
        /\ lastCall' = [op |-> "list_traces", worker |-> w,
                        limit |-> limit, snapshot |-> table,
                        result |-> list_traces(table, limit, tie)]
        /\ UNCHANGED storeVars
        /\ UNCHANGED emitterVars

\* One worker process (workers: 1, the default).
NextViewer ==
    \/ IngestBegin(1, ViewBatches)
    \/ IngestRow(1)
    \/ IngestCommit(1)
    \/ GetTrace(1, ViewTraceIds)
    \/ SearchLogs(1, ViewQueries)
    \/ ListTraces(1, ViewListLimits)
    \/ InitApp(1)

SpecViewer == InitServer /\ [][NextViewer]_vars

\* Several worker processes (--workers N).
NextServer ==
    \E w \in Workers :
        \/ IngestBegin(w, ServerBatches)
        \/ IngestBusy(w, ServerBatches)
        \/ IngestRow(w)
        \/ IngestCommit(w)
        \/ GetTrace(w, ServerTraceIds)
        \/ SearchLogs(w, ServerQueries)
        \/ ListTraces(w, ServerLimits)
        \/ InitApp(w)

SpecServer == InitServer /\ [][NextServer]_vars

----------------------------------------------------------------------------
(* Claims about the emitter                                                *)

\* The call just made ran flush: directly, or at the end of trace_context.
FlushCalled(call) ==
    \/ call.op = "flush"
    \/ call.op = "trace_context_exit" /\ call.flushed

Returned(call) == FlushCalled(call) /\ call.ret.kind = "return"

FellBack(call) ==
    /\ Returned(call)
    /\ "target" \in DOMAIN call.ret.value
    /\ call.ret.value.target = "fallback_html"

\* The records read back from lines of JSON.
RecordsOf(lines) == [i \in 1..Len(lines) |-> Loads(lines[i])[2]]

\* The records the sink received in this step, read back from what it holds.
DeliveredBatch ==
    CASE target.type = "file" ->
            RecordsOf(Added(GetOr(files, target.value, <<>>),
                            GetOr(files', target.value, <<>>)))
      [] target.type = "stdout" -> RecordsOf(Added(stdout, stdout'))
      [] OTHER ->
            IF lastCall'.sent = <<>> THEN <<>>
            ELSE LET body == Loads(lastCall'.sent)[2]
                 IN  [i \in 1..Len(body) |-> body[i][2]]

\* C1: a flush with clear_after=True that returns has handed the sink exactly
\* the records appended since the buffer was last emptied, each once and in
\* insertion order, and leaves the buffer empty.
C1_DrainDeliversAll ==
    [][(Returned(lastCall') /\ lastCall'.clear_after) =>
        /\ buffer' = <<>>
        /\ buffer = sinceClear
        /\ DeliveredBatch = sinceClear
        /\ FellBack(lastCall') =>
              fallbackDir'[lastCall'.ret.value.path].logs_html
                  = [i \in 1..Len(sinceClear) |-> LogHtml(sinceClear[i])]]_vars

\* A drain of two records has returned.
C1_Witness ==
    /\ lastCall.op = "flush"
    /\ lastCall.clear_after
    /\ lastCall.ret.kind = "return"
    /\ lastCall.ret.value.ingested = 2
    /\ buffer = <<>>

\* C2: flush on an empty buffer makes no network call, writes no file, no
\* fallback document and nothing to standard output, and returns count 0,
\* whatever the target.
C2_EmptyFlushNoIO ==
    [][(FlushCalled(lastCall') /\ buffer = <<>>) =>
        /\ lastCall'.ret.kind = "return"
        /\ lastCall'.ret.value.ingested = 0
        /\ netCalls' = netCalls
        /\ lastCall'.sent = <<>>
        /\ files' = files
        /\ fallbackDir' = fallbackDir
        /\ stdout' = stdout]_vars

\* An empty buffer was flushed to a file target whose file does not exist.
C2_Witness ==
    /\ lastCall.op = "flush"
    /\ lastCall.ret.kind = "return"
    /\ "message" \in DOMAIN lastCall.ret.value
    /\ target.type = "file"
    /\ files = NoFiles

\* A fallback entry shows field k with value v: in its header or trace block
\* for the fields rendered there, else in its details block.
Shows(entry, k, v) ==
    IF k \in {"level", "event", "timestamp", "trace_id", "span_id",
              "parent_span_id"}
    THEN entry[k] = PyStr(v)
    ELSE LET details == Loads(entry.details)[2]
         IN  k \in DOMAIN details /\ details[k] = v

\* C3: when remote delivery fails, the fallback document the result names
\* holds every field, key and value, of every buffered record.
C3_FallbackHoldsEveryField ==
    [][FellBack(lastCall') =>
        /\ lastCall'.ret.value.path \in DOMAIN fallbackDir'
        /\ LET doc == fallbackDir'[lastCall'.ret.value.path] IN
           /\ Len(doc.logs_html) = Len(buffer)
           /\ \A i \in 1..Len(buffer) : \A k \in DOMAIN buffer[i] :
                 Shows(doc.logs_html[i], k, buffer[i][k])]_vars

\* C4: a failed delivery never overwrites an earlier fallback document: every
\* record held by some document before the flush is held by some document
\* after it.
C4_FallbackNeverLoses ==
    [][FellBack(lastCall') =>
        \A n \in DOMAIN fallbackDir :
        \A i \in 1..Len(fallbackDir[n].logs_html) :
            \E m \in DOMAIN fallbackDir' :
            \E j \in 1..Len(fallbackDir'[m].logs_html) :
                fallbackDir'[m].logs_html[j] = fallbackDir[n].logs_html[i]]_vars

C6_RaiseKeepsBuffer ==
    [][(FlushCalled(lastCall') /\ lastCall'.ret.kind = "raise") =>
        buffer' = buffer]_vars

\* A flush with clear_after=True raised after a timed-out request whose
\* fallback file could not be written; the two records are still buffered.
C6_Witness ==
    /\ lastCall.op = "flush"
    /\ lastCall.clear_after
    /\ lastCall.ret.kind = "raise"
    /\ lastCall.env.net = "timeout"
    /\ Len(buffer) = 2

\* C7: every exit of a trace_context block - normal, by return, by an
\* exception - is followed by one flush call.
C7_ScopeExitFlushes ==
    lastCall.op = "trace_context_exit" => lastCall.flushed

\* The lines the buffer makes, one per record.
LinesOf(buf) == [i \in 1..Len(buf) |-> Line(buf[i])]

IsPrefix(old, new) ==
    Len(old) <= Len(new) /\ SubSeq(new, 1, Len(old)) = old

\* C23: the file of a LocalFile target is only appended to: what a file
\* held before a step is a prefix of what it holds afterwards, and a flush
\* that returns has added one line per buffered record, in buffer order.
C23_FileAppendOnly ==
    [][/\ \A p \in DOMAIN files :
             p \in DOMAIN files' /\ IsPrefix(files[p], files'[p])
       /\ (Returned(lastCall') /\ target.type = "file" /\ buffer # <<>>) =>
             /\ target.value \in DOMAIN files'
             /\ files'[target.value]
                    = GetOr(files, target.value, <<>>) \o LinesOf(buffer)
             /\ lastCall'.ret.value.ingested = Len(buffer)]_vars

\* A second flush has returned on a file that already held a line.
C23_Witness ==
    /\ Returned(lastCall)
    /\ target.type = "file"
    /\ target.value \in DOMAIN files
    /\ Len(files[target.value]) > lastCall.ret.value.ingested
    /\ lastCall.ret.value.ingested >= 1

\* C24: a flush to a LocalFile target that fails to open or to write the
\* file ends by raising; it writes no fallback document and returns no
\* result.
C24_FileNeverFallsBack ==
    [][(FlushCalled(lastCall') /\ target.type = "file") =>
         /\ fallbackDir' = fallbackDir
         /\ lastCall'.env.io # "ok" =>
               /\ lastCall'.ret.kind = "raise"
               /\ lastCall'.ret.exc = "OSError"]_vars

\* A write to the file failed after one record, and the flush raised.
C24_Witness ==
    /\ lastCall.op = "flush"
    /\ target.type = "file"
    /\ lastCall.env.io = "write_fails"
    /\ lastCall.env.cut = 1
    /\ lastCall.ret.kind = "raise"
    /\ fallbackDir = NoFiles

\* C27: the result flush returns for a non-empty buffer holds the count of
\* records and the delivery mode, whichever way the batch went.
C27_ResultNamesMode ==
    [][(Returned(lastCall') /\ buffer # <<>>) =>
         /\ "ingested" \in DOMAIN lastCall'.ret.value
         /\ "target" \in DOMAIN lastCall'.ret.value
         /\ lastCall'.ret.value.target
               \in {"http", "file", "stdout", "fallback_html"}]_vars

\* C28: the fallback document written for a failed batch holds the error
\* of the delivery and the endpoint that was not reached.
C28_FallbackNamesErrorAndEndpoint ==
    [][FellBack(lastCall') =>
         LET doc == fallbackDir'[lastCall'.ret.value.path] IN
         /\ "error" \in DOMAIN doc
         /\ doc.error = lastCall'.ret.value.error
         /\ "endpoint" \in DOMAIN doc
         /\ doc.endpoint = target.value]_vars

----------------------------------------------------------------------------
(* Claims about the server                                                 *)

\* A record lacks a field when it is absent, null or the empty string.
Lacks(d, k) == k \notin DOMAIN d \/ d[k] = JNull \/ d[k] = JStr("")

LacksId(d) == Lacks(d, "trace_id") \/ Lacks(d, "span_id")

\* The records of a batch that carry both identifiers, in batch order.
WithIds(records) == SelectSeq(records, LAMBDA d : ~LacksId(d))

\* C8: an ingest call of N records of which K lack trace_id or span_id
\* stores exactly N-K rows, reports N-K and ends without an error.
C8_IngestStoresValid ==
    [][lastCall'.op = "ingest" =>
        /\ lastCall'.status = "ok"
        /\ Len(logs') = Len(logs) + Len(WithIds(lastCall'.records))
        /\ lastCall'.ingested = Len(WithIds(lastCall'.records))]_vars

\* C9: every stored row has a non-empty trace_id and a non-empty span_id.
C9_RowsHaveIds ==
    \A i \in 1..Len(logs) :
        /\ logs[i].trace_id[1] = "str" /\ logs[i].trace_id[2] # ""
        /\ logs[i].span_id[1] = "str" /\ logs[i].span_id[2] # ""

\* Rows are stored, and the last batch held a record lacking an identifier
\* beside one that was stored.
C9_Witness ==
    /\ Len(logs) >= 2
    /\ lastCall.op = "ingest"
    /\ lastCall.ingested >= 1
    /\ \E i \in 1..Len(lastCall.records) : LacksId(lastCall.records[i])

\* The non-standard fields of a record.
NonStandard(d) == [k \in DOMAIN d \ KnownKeys |-> d[k]]

\* C10: the attrs of every row an ingest call stores parse back to the
\* record's non-standard fields: each of them, unchanged, and no other key.
C10_AttrsRoundTrip ==
    [][(lastCall'.op = "ingest" /\ lastCall'.status = "ok") =>
        LET valid == WithIds(lastCall'.records) IN
        \A j \in 1..Len(valid) :
            Loads(logs'[Len(logs) + j].attrs[2])
                = JMap(NonStandard(valid[j]))]_vars

\* A stored row whose attrs hold a nested list, from a record that also
\* carried aliases of standard fields.
C10_Witness ==
    /\ lastCall.op = "ingest" /\ lastCall.status = "ok"
    /\ \E i \in 1..Len(logs) :
          LET a == Loads(logs[i].attrs[2])[2] IN
          /\ "data" \in DOMAIN a
          /\ a["data"][1] = "list"
          /\ Len(a["data"][2]) = 3

----------------------------------------------------------------------------
(* Claims about the server's reads                                         *)

ReadOps == {"get_trace", "search_logs", "list_traces"}

\* The ids of the rows an ingest call set out to store.
Planned(c) ==
    IF c.active THEN {c.first + i - 1 : i \in 1..Len(c.rows)} ELSE {}

\* Per ingest call, committed or under way, the ids of its rows.
IngestCalls(done, cs) ==
    {done[i] : i \in 1..Len(done)} \cup {Planned(cs[w]) : w \in Workers}

Ids(table) == {table[i].id : i \in 1..Len(table)}

\* C11: a read, at any point between the steps of ingest calls, sees all the
\* rows of an ingest call or none of them; an ingest call that fails leaves
\* the table as it was and none of its rows visible to any connection.
C11_IngestAtomic ==
    [][/\ lastCall'.op \in ReadOps =>
            \A b \in IngestCalls(committed', conns') :
                \/ b \subseteq Ids(lastCall'.snapshot)
                \/ b \cap Ids(lastCall'.snapshot) = {}
       /\ (lastCall'.op = "ingest" /\ lastCall'.status = "error") =>
            /\ logs' = logs
            /\ \A v \in Workers :
                  Ids(Visible(logs', conns', v))
                      \cap Planned(conns[lastCall'.worker]) = {}]_vars

\* Worker 2 read while worker 1 had inserted one row of two and an earlier
\* batch was committed.
C11_Witness ==
    /\ lastCall.op \in ReadOps
    /\ lastCall.worker = 2
    /\ conns[1].active
    /\ conns[1].done = 1
    /\ Len(conns[1].rows) = 2
    /\ Len(lastCall.snapshot) = 2

\* get_trace answered with a tree.
GotTree == lastCall.op = "get_trace" /\ lastCall.result.status = 200

\* The rows of the trace asked for, as the read saw the table.
AskedRows ==
    SelectSeq(lastCall.snapshot,
              LAMBDA r : r.trace_id = JStr(lastCall.trace_id))

AskedSpans == {AskedRows[i].span_id[2] : i \in 1..Len(AskedRows)}

\* The places a span id is listed at: among the roots, or under a parent.
Places(tree, sid) ==
    {<<"roots", i>> : i \in {j \in 1..Len(tree.roots) : tree.roots[j] = sid}}
    \cup UNION { {<<p, i>> : i \in {j \in 1..Len(tree.children[p]) :
                                       tree.children[p][j] = sid}}
                 : p \in DOMAIN tree.children }

\* C12: the keys of children are the span ids of the trace, and each span id
\* is listed at one place among roots and the children lists.
C12_EverySpanOnce ==
    GotTree =>
        /\ DOMAIN lastCall.result.payload.children = AskedSpans
        /\ \A sid \in AskedSpans :
              Cardinality(Places(lastCall.result.payload, sid)) = 1

\* A tree of five spans with two roots.
C12_Witness ==
    /\ GotTree
    /\ Cardinality(AskedSpans) = 5
    /\ Len(lastCall.result.payload.roots) = 2

\* The first row of a span in (timestamp, insertion id) order.
FirstRow(sid) ==
    LET S == {i \in 1..Len(AskedRows) : AskedRows[i].span_id[2] = sid}
        Before(i, j) ==
            \/ SqlRank(Coalesce(AskedRows[i].ts, JStr("")))
                  < SqlRank(Coalesce(AskedRows[j].ts, JStr("")))
            \/ /\ Coalesce(AskedRows[i].ts, JStr(""))
                     = Coalesce(AskedRows[j].ts, JStr(""))
               /\ AskedRows[i].id <= AskedRows[j].id
    IN  AskedRows[CHOOSE i \in S : \A j \in S : Before(i, j)]

\* The parent of a span's first row is a span of this trace.
ParentInTrace(sid) ==
    /\ FirstRow(sid).parent_span_id # JNull
    /\ FirstRow(sid).parent_span_id # JStr("")
    /\ FirstRow(sid).parent_span_id[2] \in AskedSpans

InList(q, x) == \E i \in 1..Len(q) : q[i] = x

\* The rows the batch A, B(parent A), C(parent B), D(parent missing) makes.
ExampleTable == InsertAll(<<>>, NormRows(<<VA, VB, VC, VD>>)).table

\* C13: a span is listed under p exactly when p is the parent of its first
\* row and p has a row in the trace; every other span is a root.  For A,
\* B(parent A), C(parent B), D(parent missing): roots A and D, children[A] =
\* [B], children[B] = [C].
C13_ChildIffParentPresent ==
    GotTree =>
        LET tree == lastCall.result.payload IN
        /\ \A sid \in AskedSpans : \A p \in AskedSpans :
              InList(tree.children[p], sid)
                  <=> (ParentInTrace(sid)
                       /\ FirstRow(sid).parent_span_id = JStr(p))
        /\ \A sid \in AskedSpans :
              InList(tree.roots, sid) <=> ~ParentInTrace(sid)
        /\ (lastCall.snapshot = ExampleTable /\ lastCall.trace_id = "t1") =>
              /\ {tree.roots[i] : i \in 1..Len(tree.roots)} = {"A", "D"}
              /\ tree.children["A"] = <<"B">>
              /\ tree.children["B"] = <<"C">>

\* The tree of the example batch.
C13_Witness ==
    /\ GotTree
    /\ lastCall.snapshot = ExampleTable
    /\ lastCall.trace_id = "t1"
    /\ lastCall.result.payload.roots = <<"A", "D">>

\* C14: parent_for_span is the parent_span_id of the span's first row in
\* (timestamp, id) order, and the span is placed by that parent alone.
C14_FirstRowParent ==
    GotTree =>
        LET tree == lastCall.result.payload IN
        \A sid \in AskedSpans :
            /\ tree.parent_for_span[sid] = FirstRow(sid).parent_span_id
            /\ \A p \in DOMAIN tree.children :
                  InList(tree.children[p], sid) =>
                      FirstRow(sid).parent_span_id = JStr(p)
            /\ FirstRow(sid).parent_span_id = JNull =>
                  InList(tree.roots, sid)

\* Span B has a row naming parent A, stored first, and an older row naming
\* parent D, stored later; span A has a later row naming a parent.
C14_Witness ==
    /\ GotTree
    /\ "B" \in AskedSpans
    /\ lastCall.result.payload.parent_for_span["B"] = JStr("D")
    /\ \E i, j \in 1..Len(AskedRows) :
          /\ i < j
          /\ AskedRows[i].span_id = JStr("B")
          /\ AskedRows[i].parent_span_id = JStr("A")
          /\ AskedRows[j].span_id = JStr("B")
          /\ AskedRows[j].parent_span_id = JStr("D")
          /\ AskedRows[i].id < AskedRows[j].id

\* C15: every children list is in ascending order of the timestamp of each
\* child's first row, a null timestamp counting as "".
C15_ChildrenByFirstTs ==
    GotTree =>
        LET tree == lastCall.result.payload IN
        \A p \in DOMAIN tree.children :
        \A i, j \in 1..Len(tree.children[p]) :
            i < j =>
                SqlRank(Coalesce(FirstRow(tree.children[p][i]).ts, JStr("")))
                  <= SqlRank(Coalesce(FirstRow(tree.children[p][j]).ts,
                                      JStr("")))

\* A has the children G, of timestamp T2, and B, of timestamp T3.
C15_Witness ==
    /\ GotTree
    /\ "A" \in AskedSpans
    /\ lastCall.result.payload.children["A"] = <<"G", "B">>

\* The function name recorded in the attrs of a span's first row.
FunctionOf(sid) ==
    LET attrs == Loads(FirstRow(sid).attrs[2])[2]
    IN  IF Truthy(Get(attrs, "code.function"))
        THEN Get(attrs, "code.function") ELSE Get(attrs, "function")

\* C16: every span has a title, none empty: the function name of the first
\* row's attrs if there is one, else that row's event, else the span id.
C16_TitleNeverEmpty ==
    GotTree =>
        LET tree == lastCall.result.payload IN
        /\ DOMAIN tree.title_for_span = AskedSpans
        /\ \A sid \in AskedSpans :
              /\ Truthy(tree.title_for_span[sid])
              /\ tree.title_for_span[sid] =
                    IF Truthy(FunctionOf(sid)) THEN FunctionOf(sid)
                    ELSE IF Truthy(FirstRow(sid).event)
                    THEN FirstRow(sid).event
                    ELSE JStr(sid)

\* Titles from a function name, from an event and from the span id.
C16_Witness ==
    /\ GotTree
    /\ {"A", "B", "C"} \subseteq AskedSpans
    /\ lastCall.result.payload.title_for_span["A"] = JStr("f")
    /\ lastCall.result.payload.title_for_span["B"] = JStr("axb")
    /\ lastCall.result.payload.title_for_span["C"] = JStr("C")

\* C17: a trace id without rows gets None from fetch_trace and 404 from the
\* endpoint; a trace id with rows gets a tree of at least one span.
C17_NotFoundIffNoRows ==
    lastCall.op = "get_trace" =>
        /\ AskedRows = <<>> =>
              /\ fetch_trace(lastCall.snapshot, lastCall.trace_id) = None
              /\ lastCall.result.status = 404
        /\ AskedRows # <<>> =>
              /\ fetch_trace(lastCall.snapshot, lastCall.trace_id) # None
              /\ lastCall.result.status = 200
              /\ DOMAIN lastCall.result.payload.children # {}
              /\ DOMAIN lastCall.result.payload.logs_by_span # {}

\* Not found, asked of a table that holds rows of other traces.
C17_Witness ==
    /\ lastCall.op = "get_trace"
    /\ lastCall.result.status = 404
    /\ lastCall.snapshot # <<>>

Searched == lastCall.op = "search_logs"

\* text holds sub as a run of consecutive characters.
Contains(sub, text) ==
    \E i \in 1..(Len(text) - Len(sub) + 1) :
        SubSeq(text, i, i + Len(sub) - 1) = sub

\* A row satisfies every filter supplied.
Satisfies(r, q) ==
    /\ q.level # JNull => r.level = q.level
    /\ q.event # JNull =>
          (r.event # JNull
           /\ Contains(Chars(q.event[2]), Chars(r.event[2])))
    /\ q.since # JNull =>
          (r.ts # JNull /\ Rank(q.since[2]) <= Rank(r.ts[2]))
    /\ q.until # JNull =>
          (r.ts # JNull /\ Rank(r.ts[2]) <= Rank(q.until[2]))

\* C18: search returns only rows that satisfy every filter supplied - equal
\* level, event holding the substring, since <= ts <= until - all of them
\* when they are no more than the limit, and count is the number returned.
C18_SearchIsConjunctiveFilter ==
    Searched =>
        LET res == lastCall.result.results
            q   == lastCall.q
            tbl == lastCall.snapshot
            matching == {i \in 1..Len(tbl) : Satisfies(tbl[i], q)}
        IN  /\ \A i \in 1..Len(res) : Satisfies(res[i], q)
            /\ Cardinality(matching) <= q.limit =>
                  {res[i].id : i \in 1..Len(res)}
                      = {tbl[i].id : i \in matching}
            /\ lastCall.result.count = Len(res)

\* C19: search results have non-increasing timestamps, are at most limit
\* many, and no row left out that passes the filters is newer than a row
\* returned.
C19_NewestFirstWithinLimit ==
    Searched =>
        LET res == lastCall.result.results
            q   == lastCall.q
            tbl == lastCall.snapshot
            returned == {res[i].id : i \in 1..Len(res)}
        IN  /\ Len(res) <= q.limit
            /\ \A i \in 1..(Len(res) - 1) :
                  SqlRank(res[i].ts) >= SqlRank(res[i + 1].ts)
            /\ \A k \in 1..Len(tbl) :
                  (Where(tbl[k], q) /\ tbl[k].id \notin returned) =>
                      \A i \in 1..Len(res) :
                          SqlRank(tbl[k].ts) <= SqlRank(res[i].ts)

\* A search without filters and with limit 1 over four rows or more
\* returned the row of timestamp T3.
C19_Witness ==
    /\ Searched
    /\ lastCall.q.limit = 1
    /\ lastCall.q.level = JNull /\ lastCall.q.event = JNull
    /\ lastCall.q.since = JNull /\ lastCall.q.until = JNull
    /\ Len(lastCall.snapshot) >= 4
    /\ Len(lastCall.result.results) = 1
    /\ lastCall.result.results[1].ts = JStr("T3")

Listed == lastCall.op = "list_traces" /\ lastCall.result.status = 200

\* C20: list_traces gives one entry per trace id of the table, up to the
\* limit, each with the earliest and the latest timestamp and the number
\* of the trace's rows, in descending order of the latest timestamp; a
\* trace left out is no more recent than one listed.
C20_ListTracesAggregates ==
    Listed =>
        LET out == lastCall.result.traces
            tbl == lastCall.snapshot
            ids == {tbl[i].trace_id : i \in 1..Len(tbl)}
            RowsOf(t) == {k \in 1..Len(tbl) : tbl[k].trace_id = t}
            TsOf(t) == {tbl[k].ts : k \in RowsOf(t)} \ {JNull}
        IN  /\ Len(out) = IF Cardinality(ids) < lastCall.limit
                          THEN Cardinality(ids) ELSE lastCall.limit
            /\ \A i, j \in 1..Len(out) :
                  i # j => out[i].trace_id # out[j].trace_id
            /\ \A i \in 1..Len(out) :
                  /\ out[i].trace_id \in ids
                  /\ out[i].events = Cardinality(RowsOf(out[i].trace_id))
                  /\ TsOf(out[i].trace_id) = {} =>
                        (out[i].start_ts = JNull /\ out[i].end_ts = JNull)
                  /\ TsOf(out[i].trace_id) # {} =>
                        /\ out[i].start_ts \in TsOf(out[i].trace_id)
                        /\ out[i].end_ts \in TsOf(out[i].trace_id)
                        /\ \A t \in TsOf(out[i].trace_id) :
                              /\ Rank(out[i].start_ts[2]) <= Rank(t[2])
                              /\ Rank(t[2]) <= Rank(out[i].end_ts[2])
            /\ \A i, j \in 1..Len(out) :
                  i < j => SqlRank(out[i].end_ts) >= SqlRank(out[j].end_ts)
            /\ \A t \in ids :
                  (\A i \in 1..Len(out) : out[i].trace_id # t) =>
                      \A ts \in TsOf(t) : \A i \in 1..Len(out) :
                          SqlRank(ts) <= SqlRank(out[i].end_ts)

\* Two traces listed: t1 with four rows from T1 to T3, then t2 with two
\* rows from T1 to T2.
C20_Witness ==
    /\ Listed
    /\ Len(lastCall.result.traces) = 2
    /\ lastCall.result.traces[1].events = 4
    /\ lastCall.result.traces[1].end_ts = JStr("T3")
    /\ lastCall.result.traces[2].events = 2
    /\ lastCall.result.traces[2].start_ts = JStr("T1")

\* C21: a list-traces request whose limit is over the maximum still
\* succeeds, and returns at most the maximum number of traces.
C21_OverLimitClamped ==
    (lastCall.op = "list_traces" /\ lastCall.limit > MaxLimit) =>
        /\ lastCall.result.status = 200
        /\ Len(lastCall.result.traces) <= MaxLimit

\* C25: a row once stored stays: after every step of the server (ingest,
\* get_trace, search_logs, list_traces, init_app on the existing database)
\* each row the table held is still there, with its id and its values.
C25_RowsImmutable ==
    [][\A i \in 1..Len(logs) :
          /\ i <= Len(logs')
          /\ logs'[i] = logs[i]
          /\ \A j \in 1..Len(logs') :
                logs'[j].id = logs[i].id => j = i]_vars

\* init_app has run again on a table of at least four rows, which it
\* still holds.
C25_Witness ==
    /\ lastCall.op = "init_app"
    /\ Len(logs) >= 4
    /\ logs[1].id = 1

----------------------------------------------------------------------------
(* Claims about the buffer and its caller                                  *)

\* The text that decides: the parameter when one is given, else LOG_TRG.
Deciding(call) ==
    IF call.target[1] # "null" THEN call.target ELSE call.log_trg

\* The kind of sink a text stands for.
KindOf(text) ==
    IF text[1] = "null" THEN "stdout"
    ELSE IF text[2] = <<>> \/ text[2] = <<"-">> THEN "stdout"
    ELSE IF \E prefix \in {HttpPrefix, HttpsPrefix} :
               /\ Len(text[2]) >= Len(prefix)
               /\ \A i \in 1..Len(prefix) : text[2][i] = prefix[i]
    THEN "http"
    ELSE "file"

\* C22: the target is resolved when the BufferedLogger is made and at no
\* other time: from the parameter when it is given, else from LOG_TRG,
\* else it is the console; a text starting with http:// or https:// is a
\* remote target holding that text, "-" or no text the console, and any
\* other text a file.
C22_TargetResolvedOnce ==
    [][/\ lastCall'.op # "init" => target' = target
       /\ (lastCall'.op = "init" /\ lastCall'.ret.kind = "return") =>
             /\ target'.type = KindOf(Deciding(lastCall'))
             /\ target'.type = "http" =>
                   target'.value = Join(Deciding(lastCall')[2])
       /\ (lastCall'.op = "init" /\ lastCall'.ret.kind = "raise") =>
             /\ target' = target
             /\ KindOf(Deciding(lastCall')) = "file"]_vars

\* A logger was made with a file path while LOG_TRG named a remote target.
C22_Witness ==
    /\ lastCall.op = "init"
    /\ lastCall.target = Text(<<"~", "/", "f">>)
    /\ lastCall.log_trg = Text(HttpPrefix \o <<"h">>)
    /\ target = [type |-> "file", value |-> "/h/f"]

\* C26: get_logs returns the entries of the buffer, in the order they were
\* appended, as a list of its own: the call leaves the buffer as it was,
\* and so does appending to the returned list or removing from it.
C26_GetLogsCopies ==
    [][/\ lastCall'.op = "get_logs" =>
             /\ buffer' = buffer
             /\ lastCall'.result = buffer
             /\ lastCall'.result = sinceClear
             /\ HeldItems(held', buffer') = buffer
       /\ lastCall'.op \in {"list_append", "list_pop"} =>
             /\ buffer' = buffer
             /\ HeldItems(held', buffer') # HeldItems(held, buffer)]_vars

\* The caller emptied the list it got while the buffer holds two events.
C26_Witness ==
    /\ lastCall.op = "list_pop"
    /\ held.ref = "copy"
    /\ held.items = <<>>
    /\ Len(buffer) = 2

----------------------------------------------------------------------------
(* Claims about the blocking call                                          *)

InCall == inflight.state = "running"

----------------------------------------------------------------------------
(* Claims about the decorator                                              *)

\* The places in the buffer of the events logged in span s.
EventsIn(s) ==
    {i \in 1..Len(buffer) :
        "span_id" \in DOMAIN buffer[i]
        /\ buffer[i]["span_id"] = JStr(SpanId(s))}

StartsOf(s) ==
    {i \in 1..Len(buffer) :
        buffer[i]["event"] = JStr(spans[s].name \o ".start")
        /\ i \in EventsIn(s)}

EndsOf(s) ==
    {i \in 1..Len(buffer) :
        buffer[i]["event"] = JStr(spans[s].name \o ".end")
        /\ i \in EventsIn(s)}

\* the events between the start and the end of the call with span s
Within(s) ==
    {i \in 1..Len(buffer) :
        /\ \E a \in StartsOf(s) : a <= i
        /\ \A b \in EndsOf(s) : i <= b}

\* C30: each decorated call logs one start event, marked provisional,
\* before the events of its body and one end event after them, both with
\* the id of the span made for the call, which is a child of the span of
\* the decorated call it was made from; the events of a call made from the
\* body lie between the two; and when the body raises, the end event is
\* logged with log.error and holds the error, and the exception is raised
\* to the caller.
C30_StartAndEndAroundBody ==
    /\ [](\A s \in 1..Len(spans) :
            /\ Cardinality(StartsOf(s)) = 1
            /\ \A a \in StartsOf(s) :
                  /\ \A i \in EventsIn(s) : a <= i
                  /\ "provisional" \in DOMAIN buffer[a]
                  /\ buffer[a]["provisional"] = JBool("true")
            /\ Cardinality(EndsOf(s))
                  = IF spans[s].state = "running" THEN 0 ELSE 1
            /\ \A b \in EndsOf(s) :
                  /\ \A i \in EventsIn(s) : i <= b
                  /\ "provisional" \notin DOMAIN buffer[b]
                  /\ spans[s].state = "raised" =>
                        /\ "error" \in DOMAIN buffer[b]
                        /\ "exception" \in DOMAIN buffer[b]
            /\ \A c \in 1..Len(spans) :
                  spans[c].parent = s =>
                      /\ EventsIn(c) \subseteq Within(s)
                      /\ spans[c].state = "running" =>
                            spans[s].state = "running"
                      /\ \A i \in EventsIn(c) :
                            /\ "parent_span_id" \in DOMAIN buffer[i]
                            /\ buffer[i]["parent_span_id"]
                                  = JStr(SpanId(s))
                            /\ buffer[i]["trace_id"]
                                  = buffer[CHOOSE a \in StartsOf(s) : TRUE]
                                       ["trace_id"])
    /\ [][lastCall'.op = "raise" =>
            /\ lastCall'.method = "error"
            /\ lastCall'.ret = Raise(lastCall'.exc)
            /\ buffer'[Len(buffer')]["error"] = JStr(lastCall'.exc.msg)
            /\ buffer'[Len(buffer')]["span_id"]
                  = JStr(SpanId(lastCall'.span))
            /\ Len(buffer') = Len(buffer) + 1]_vars

\* A call made from the body of another raised, and the outer call, which
\* logged after it, returned.
C30_Witness ==
    /\ Len(spans) >= 2
    /\ spans[1].state = "returned"
    /\ spans[2].state = "raised"
    /\ spans[2].parent = 1
    /\ Cardinality(EventsIn(1)) = 3
    /\ Cardinality(EventsIn(2)) = 2
    /\ buffer[4]["event"] = JStr("work")
    /\ stack = <<>>

----------------------------------------------------------------------------
(* Claims about the emitter, continued                                     *)

\* C31: entering a trace_context block empties the buffer, and the batch
\* the flush at the end of the block hands to the sink is the records
\* appended inside the block, in order, and none from before it.
C31_ScopeBatchIsScopeRecords ==
    [][/\ (scope = "idle" /\ scope' = "active") => buffer' = <<>>
       /\ (lastCall'.op = "trace_context_exit" /\ lastCall'.flushed
             /\ lastCall'.ret.kind = "return") =>
             /\ buffer = sinceClear
             /\ DeliveredBatch = sinceClear]_vars

\* With the console as target: an event without ids was logged before the
\* block and one inside it; standard output holds each as it was logged,
\* and then the batch of the block's end, which is the second alone.
C31_Witness ==
    /\ lastCall.op = "trace_context_exit"
    /\ lastCall.flushed
    /\ lastCall.ret.kind = "return"
    /\ stdout = <<Line(Ev3), Line(Ev1), Line(Ev1)>>

\* C32: two BufferedLogger objects of one process are isolated: a record
\* logged through the logger of one is appended to the buffer of that one
\* and the other's buffer stays as it was, in whatever order the two were
\* made.
C32_BuffersIsolated ==
    [][lastCall'.op = "log" =>
          /\ instances'[lastCall'.instance].buffer =
                 Append(instances[lastCall'.instance].buffer,
                        lastCall'.event)
          /\ \A j \in Instances \ {lastCall'.instance} :
                 instances'[j] = instances[j]]_vars

\* C33: with a Remote target whose server answers, flush(clear_after=True)
\* loses no record: every record the buffer held is a row of the store
\* afterwards, or is still in the buffer, or is in the fallback document the
\* flush wrote.
C33_ReachableFlushLosesNothing ==
    [][(/\ FlushCalled(lastCall')
        /\ target.type = "http"
        /\ buffer # <<>>
        /\ lastCall'.env.net = "ok"
        /\ lastCall'.clear_after
        /\ lastCall'.ret.kind = "return") =>
        \A i \in 1..Len(buffer) :
            \/ /\ ingest(<<>>, lastCall'.sent).status = "ok"
               /\ normalize_record(DeliveredBatch[i]) # NoRow
            \/ \E j \in 1..Len(buffer') : buffer'[j] = buffer[i]
            \/ FellBack(lastCall')]_vars

\* The number of places of a sequence that hold x.
Count(seq, x) == Cardinality({i \in 1..Len(seq) : seq[i] = x})

\* C38: with the Console target a record logged once and flushed once is on
\* standard output exactly once: when nothing was flushed before (standard
\* output holds at most what logging the buffered records put there) and the
\* buffered records differ, the flush leaves each record's line on standard
\* output once. With a Remote or LocalFile target, logging a record writes
\* to no file, to no stream and to no server.
C38_ConsoleWritesOnce ==
    [][/\ (/\ FlushCalled(lastCall')
           /\ target.type = "stdout"
           /\ lastCall'.ret.kind = "return"
           /\ Len(stdout) <= Len(buffer)
           /\ \A i \in 1..Len(stdout) : stdout[i] = Line(buffer[i])
           /\ \A i, j \in 1..Len(buffer) : buffer[i] = buffer[j] => i = j) =>
           \A i \in 1..Len(buffer) : Count(stdout', Line(buffer[i])) = 1
       /\ (/\ target.type \in {"http", "file"}
           /\ Len(buffer') = Len(buffer) + 1) =>
           /\ stdout' = stdout
           /\ files' = files
           /\ fallbackDir' = fallbackDir
           /\ netCalls' = netCalls]_vars

\* The lines a LocalFile flush of the buffer writes.
BufferLines == [i \in 1..Len(buffer) |-> Line(buffer[i])]

\* C36: flush(clear_after=False) delivers the batch and leaves the buffer
\* as it was, and flush changes the buffer only when clear_after is true,
\* to the empty buffer; a second flush right after one that did not clear
\* delivers the same records again, so that a LocalFile target ends with
\* the batch twice.
C36_KeepWhenNotClearing ==
    [][lastCall'.op = "flush" =>
        /\ ~lastCall'.clear_after => buffer' = buffer
        /\ (~lastCall'.clear_after /\ lastCall'.ret.kind = "return") =>
               DeliveredBatch = buffer
        /\ buffer' # buffer => lastCall'.clear_after /\ buffer' = <<>>
        /\ (/\ lastCall.op = "flush"
            /\ ~lastCall.clear_after
            /\ lastCall.ret.kind = "return"
            /\ lastCall'.ret.kind = "return"
            /\ target.type = "file") =>
               LET old == GetOr(files, target.value, <<>>)
                   new == GetOr(files', target.value, <<>>)
               IN  /\ new = old \o BufferLines
                   /\ Len(new) >= 2 * Len(buffer)
                   /\ SubSeq(new, Len(new) - 2 * Len(buffer) + 1,
                             Len(new)) = BufferLines \o BufferLines]_vars

\* A LocalFile buffer of one record was flushed twice without clearing, and
\* the file holds the record twice while the buffer still holds it.
C36_Witness ==
    /\ lastCall.op = "flush"
    /\ ~lastCall.clear_after
    /\ lastCall.ret.kind = "return"
    /\ target.type = "file"
    /\ buffer = <<Ev1>>
    /\ target.value \in DOMAIN files
    /\ files[target.value] = <<Line(Ev1), Line(Ev1)>>

\* The spans listed under p.
Kids(tree, p) == {tree.children[p][i] : i \in 1..Len(tree.children[p])}

\* The spans of S and those below them, following children.
ReachFrom(tree, S) ==
    LET F[n \in 0..Cardinality(DOMAIN tree.children)] ==
            IF n = 0 THEN S
            ELSE F[n - 1] \cup UNION {Kids(tree, p) : p \in F[n - 1]}
    IN  F[Cardinality(DOMAIN tree.children)]

\* C34: the tree of a trace is a rooted forest: no span is below itself, and
\* every span of the trace is a root or below a root - whatever parents the
\* stored rows name, each other's or their own.
C34_RootedForest ==
    GotTree =>
        LET tree == lastCall.result.payload IN
        /\ \A sid \in AskedSpans : sid \notin ReachFrom(tree, Kids(tree, sid))
        /\ ReachFrom(tree, {tree.roots[i] : i \in 1..Len(tree.roots)})
               = AskedSpans

\* The tree fetch_trace built for the trace asked for.
AskedTree == fetch_trace(lastCall.snapshot, lastCall.trace_id)

\* Row r comes before row q in (storage timestamp, insertion id) order.
RowBefore(r, q) ==
    \/ SqlRank(Coalesce(r.ts, JStr(""))) < SqlRank(Coalesce(q.ts, JStr("")))
    \/ /\ SqlRank(Coalesce(r.ts, JStr(""))) =
              SqlRank(Coalesce(q.ts, JStr("")))
       /\ r.id < q.id

\* C35: logs_by_span partitions the rows of the trace: its keys are the span
\* ids of the trace, every stored row of the trace is once in the list of its
\* own span and in no other list, a list holds nothing else, and each list
\* is in ascending order of timestamp, rows of one timestamp by insertion id.
C35_LogsBySpanPartition ==
    GotTree =>
        LET by == AskedTree.logs_by_span IN
        /\ DOMAIN by = AskedSpans
        /\ \A k \in 1..Len(AskedRows) : \A sid \in AskedSpans :
              Count(by[sid], AskedRows[k]) =
                  IF sid = AskedRows[k].span_id[2] THEN 1 ELSE 0
        /\ \A sid \in AskedSpans : \A i \in 1..Len(by[sid]) :
              /\ Count(AskedRows, by[sid][i]) = 1
              /\ \A j \in (i + 1)..Len(by[sid]) :
                    RowBefore(by[sid][i], by[sid][j])

\* Span B has two rows, the one stored later first for its older timestamp,
\* next to three other spans of one row each.
C35_Witness ==
    /\ GotTree
    /\ Cardinality(AskedSpans) = 4
    /\ Len(AskedTree.logs_by_span["B"]) = 2
    /\ AskedTree.logs_by_span["B"][1].id > AskedTree.logs_by_span["B"][2].id

\* C37: the target of a buffer is fixed when the buffer is made: logging,
\* clear, get_logs, flush, trace_context, the clock and a change of LOG_TRG
\* leave its type and its path or URL as they were, and every flush goes
\* where the target says: a LocalFile flush changes no file but the
\* target's, whose name has its timestamp from the construction, and no
\* flush writes to the sink of another target type; so the flushes of one
\* buffer leave one file at most.
C37_TargetFixed ==
    /\ [](Cardinality(DOMAIN files) <= 1)
    /\ [][/\ lastCall'.op # "init" => target' = target
          /\ (FlushCalled(lastCall') /\ target.type = "file") =>
                \A path \in DOMAIN files' :
                    path # target.value =>
                        path \in DOMAIN files /\ files'[path] = files[path]
          /\ (FlushCalled(lastCall') /\ target.type # "file") =>
                files' = files
          /\ (FlushCalled(lastCall') /\ target.type # "stdout") =>
                stdout' = stdout
          /\ (FlushCalled(lastCall') /\ target.type # "http") =>
                netCalls' = netCalls /\ fallbackDir' = fallbackDir]_vars

\* A buffer made at second 0 from LOG_TRG = f<YYYYMMDD_HHMMSS> was flushed
\* twice, the second time at second 1 with LOG_TRG naming a server, and both
\* batches are in the file f0.
C37_Witness ==
    /\ lastCall.op = "flush"
    /\ lastCall.ret.kind = "return"
    /\ clock = 1
    /\ environ = Text(HttpPrefix \o <<"h">>)
    /\ target = [type |-> "file", value |-> "f0"]
    /\ DOMAIN files = {"f0"}
    /\ files["f0"] = <<Line(Ev1), Line(Ev1)>>
    /\ buffer = <<>>

\* The column normalize_record fills from key k of a record.
ColumnOf(k) ==
    CASE k \in {"timestamp", "ts", "@timestamp"}  -> "ts"
      [] k \in {"level", "lvl"}                   -> "level"
      [] k \in {"logger", "name"}                 -> "logger"
      [] k \in {"event", "message", "msg"}        -> "event"
      [] k \in {"parent_span_id", "parent_id"}    -> "parent_span_id"
      [] OTHER                                    -> k

\* C39: normalisation loses no value: for every record an ingest call
\* stores, the value under each of its keys is in the row's column for that
\* key or under that key in the row's attrs - also when the record has two
\* aliases of one field, or an empty preferred alias.
C39_NormaliseLosesNothing ==
    [][(lastCall'.op = "ingest" /\ lastCall'.status = "ok") =>
        LET valid == WithIds(lastCall'.records) IN
        \A j \in 1..Len(valid) : \A k \in DOMAIN valid[j] :
            IF k \in KnownKeys
            THEN logs'[Len(logs) + j][ColumnOf(k)] = Bound(valid[j][k])
            ELSE Get(Loads(logs'[Len(logs) + j].attrs[2])[2], k)
                     = valid[j][k]]_vars

====
